---- MODULE Spec2Model ----
(***************************************************************************)
(* Zynthian controllers and the MIDI-learn table.                          *)
(*                                                                         *)
(* zynthian_controller (zyngine/zynthian_controller.py): a value with a    *)
(* typed scale, outbound routing and an optional MIDI-learn binding.       *)
(* zynthian_engine (zyngine/zynthian_engine.py): the 16 x 128 learned_cc   *)
(* grid, the learned_zctrls dictionary keyed by get_path(), the dispatch   *)
(* of inbound CC messages, and the pages of generate_ctrl_screens.         *)
(* zynthian_gui (zynthian_gui.py): the MIDI-learn mode and the Control     *)
(* Change branch of zynmidi_read.                                          *)
(*                                                                         *)
(* Python values.  None is the number -(2^30), which no channel, CC number  *)
(* or controller value takes, where the field holds a number, and the      *)
(* string "None" where it holds an object or a string.  Python's True /    *)
(* False / None as a returned value are the strings "True" / "False" /     *)
(* "None"; an exception that escapes is returned as its class name.        *)
(***************************************************************************)
EXTENDS Integers, Sequences, FiniteSets, TLC

\* ------------------------------------------------------------------ bounds

\* Channels 0..MaxChan and CC numbers 0..MaxCC of the learned_cc grid
\* (16 x 128 in the program).
MaxChan == 1
MaxCC == 1

Chans == 0..MaxChan
CCs == 0..MaxCC

\* Python None in a numeric field, and in an object / string field.
None == -(2^30)
Nil == "None"

\* The controllers that exist (object identities).
Ctrls == {"A", "B", "C"}

VARIABLES
    zctrl,           \* controller id -> its fields
    learned_cc,      \* engine.learned_cc[chan][cc]: a controller id or Nil
    learned_zctrls,  \* engine.learned_zctrls: insertion-ordered <<path, zctrl>> entries
    midi_single_active_channel, \* zynthian_gui_config.midi_single_active_channel
    op,              \* the last operation called and its arguments
    ret,             \* what the last operation returned
    ui,              \* the UI thread inside a learn operation: its line and locals
    observed,        \* what the control thread's last lookup found
    sent,            \* the messages the last operation handed to the sinks
    thr,             \* the threads inside set_value: their line and locals
    ignore_not_on_gui, \* engine.ignore_not_on_gui
    _ctrl_screens,   \* engine._ctrl_screens: the pages, each <<name, symbols>>
    midi_learn_mode, \* zynthian_gui.midi_learn_mode
    midi_learn_zctrl \* zynthian_gui.midi_learn_zctrl: the controller waiting for a CC, or Nil

vars == <<zctrl, learned_cc, learned_zctrls, midi_single_active_channel, op, ret,
          ui, observed, sent, thr, ignore_not_on_gui, _ctrl_screens,
          midi_learn_mode, midi_learn_zctrl>>

\* ------------------------------------------------------------ dictionaries

\* learned_zctrls is a Python dict: a sequence of entries in insertion order.
DictHas(d, k) == \E i \in 1..Len(d) : d[i].path = k

DictGet(d, k) == d[CHOOSE i \in 1..Len(d) : d[i].path = k].zctrl

\* d[k] = v: an existing key keeps its place, a new key is appended.
DictPut(d, k, v) ==
    IF DictHas(d, k)
    THEN [i \in 1..Len(d) |-> IF d[i].path = k THEN [path |-> k, zctrl |-> v] ELSE d[i]]
    ELSE Append(d, [path |-> k, zctrl |-> v])

\* del d[k]
DictDel(d, k) == SelectSeq(d, LAMBDA e : e.path # k)

\* ---------------------------------------------------------------- numbers

\* A controller's numbers (value, bounds, ticks, nudge factor) are Python ints
\* and floats.  Here they are whole multiples of 1/Scale: Scale divides by the
\* 127 of the MIDI conversions, by the 200 of the nudge factor and by the 2 and
\* 3 of the tick generation, so these divisions are exact on whole ranges.
Scale == 127 * 200 * 3

Whole(n) == n * Scale

\* What set_value is given and what self.value holds: a number, a label string
\* or None.
Num(x) == [k |-> "num", v |-> x]

Str(s) == [k |-> "str", s |-> s]

PyNone == [k |-> "None"]

Bool(b) == [k |-> "bool", b |-> b]

\* A numeric field read as a value: None stays None.
FromField(n) == IF n = None THEN PyNone ELSE Num(n)

\* "if x:" on a number or None
Truthy(n) == n # None /\ n # 0

Abs(x) == IF x < 0 THEN -x ELSE x

Min(a, b) == IF a <= b THEN a ELSE b

\* a / b cut toward zero at the resolution of the model
TruncDiv(a, b) ==
    IF (a >= 0) = (b > 0) THEN Abs(a) \div Abs(b) ELSE -(Abs(a) \div Abs(b))

\* Python's int(x): truncation toward zero
py_int(x) == TruncDiv(x, Scale) * Scale

\* math.pow(10, k / 127) for k = 0 .. 128, in units of 1/Scale
Pow10Table ==
    << 76200, 77594, 79014, 80459, 81932, 83431, 84957, 86511,
       88094, 89706, 91347, 93018, 94720, 96453, 98218, 100015,
       101845, 103708, 105606, 107538, 109505, 111509, 113549, 115626,
       117742, 119896, 122090, 124324, 126598, 128914, 131273, 133675,
       136120, 138611, 141147, 143729, 146359, 149037, 151764, 154540,
       157368, 160247, 163179, 166164, 169204, 172300, 175453, 178663,
       181931, 185260, 188650, 192101, 195616, 199195, 202839, 206550,
       210329, 214178, 218096, 222086, 226150, 230287, 234501, 238791,
       243160, 247609, 252139, 256752, 261450, 266233, 271104, 276064,
       281115, 286258, 291496, 296829, 302260, 307790, 313421, 319155,
       324995, 330941, 336996, 343161, 349440, 355833, 362343, 368973,
       375723, 382598, 389598, 396726, 403984, 411376, 418902, 426566,
       434371, 442318, 450411, 458651, 467043, 475588, 484289, 493149,
       502172, 511360, 520716, 530243, 539944, 549823, 559882, 570126,
       580557, 591179, 601995, 613009, 624224, 635645, 647275, 659118,
       671177, 683456, 695961, 708694, 721660, 734864, 748309, 762000,
       775942 >>

\* int(127 * math.log10(arg)) for 1 <= arg < 10 ^ (128 / 127)
log10_midi(arg) ==
    CHOOSE k \in 0..127 : Pow10Table[k + 1] <= arg /\ arg < Pow10Table[k + 2]

\* arg * math.pow(10, steps / 200): 10 ^ (1 / 200) is 2184 / 2159 to eight digits
RECURSIVE pow10_steps(_, _)
pow10_steps(arg, steps) ==
    IF steps = 0 THEN arg
    ELSE IF steps > 0 THEN pow10_steps(TruncDiv(arg * 2184, 2159), steps - 1)
    ELSE pow10_steps(TruncDiv(arg * 2159, 2184), steps + 1)

\* (9 * value - (10 * value_min - value_max)) / value_range, the argument of the
\* logarithm at lines 302 and 434; value_range is a whole number in every
\* logarithmic configuration.
log_arg(z) ==
    TruncDiv(9 * z.value.v - (10 * z.value_min - z.value_max), z.value_range \div Scale)

\* ------------------------------------------------------------- controller

\* zynthian_controller.__init__ without options, for a controller of an engine.
\* labels and ticks are sequences, None being the empty one (the code only asks
\* whether they are empty); label2value and value2label are functions, None
\* being the empty one.
NewController ==
    [ engine |-> TRUE,
      value |-> Num(0), value_default |-> Num(0),
      value_min |-> None, value_mid |-> None, value_max |-> None, value_range |-> None,
      nudge_factor |-> None,
      labels |-> <<>>, ticks |-> <<>>, range_reversed |-> FALSE,
      is_toggle |-> FALSE, is_integer |-> TRUE, is_logarithmic |-> FALSE,
      is_dirty |-> TRUE,
      midi_chan |-> None, midi_cc |-> None,
      osc_path |-> Nil, graph_path |-> Nil,
      midi_learn_chan |-> None, midi_learn_cc |-> None,
      label2value |-> <<>>, value2label |-> <<>> ]

\* "{}#{}".format(midi_chan, midi_cc)
FormatChanCC(chan, cc) == ToString(chan) \o "#" \o ToString(cc)

\* zynthian_controller.get_path; the result Nil is Python's None.
get_path(z) ==
    IF z.osc_path # Nil /\ z.osc_path # "" THEN z.osc_path
    ELSE IF z.graph_path # Nil /\ z.graph_path # "" THEN z.graph_path
    ELSE IF z.midi_chan # None /\ z.midi_cc # None THEN FormatChanCC(z.midi_chan, z.midi_cc)
    ELSE Nil

\* The engine's learn state, as the operations below read and write it.
LearnState == [zctrl |-> zctrl, learned_cc |-> learned_cc, learned_zctrls |-> learned_zctrls]

\* zynthian_controller._unset_midi_learn
_unset_midi_learn(zs, c) ==
    [zs EXCEPT ![c].midi_learn_chan = None, ![c].midi_learn_cc = None]

\* zynthian_controller._set_midi_learn
_set_midi_learn(zs, c, chan, cc) ==
    [zs EXCEPT ![c].midi_learn_chan = chan, ![c].midi_learn_cc = cc]

\* zynthian_engine.midi_unlearn(zctrl): keyed on the controller's PATH.  Indexing
\* learned_cc with None raises TypeError, caught at line 692: nothing is changed
\* and the method returns None.
engine_midi_unlearn(S, c) ==
    LET z == S.zctrl[c]
        path == get_path(z)
    IN  IF ~DictHas(S.learned_zctrls, path)
        THEN [S |-> S, ret |-> "None"]
        ELSE IF z.midi_learn_chan = None \/ z.midi_learn_cc = None
        THEN [S |-> S, ret |-> "None"]
        ELSE [S |-> [zctrl |-> _unset_midi_learn(S.zctrl, c),
                     learned_cc |-> [S.learned_cc EXCEPT
                                        ![z.midi_learn_chan][z.midi_learn_cc] = Nil],
                     learned_zctrls |-> DictDel(S.learned_zctrls, path)],
              ret |-> "True"]

\* A midi_unlearn that asks the engine even when there is nothing to unlearn.
zctrl_midi_unlearn_unguarded(S, c) ==
    LET r == engine_midi_unlearn(S, c)
    IN  [S |-> r.S, ret |-> IF r.ret = "True" THEN "True" ELSE "False"]

\* zynthian_controller.midi_unlearn (every controller here has an engine).
zctrl_midi_unlearn(S, c) ==
    LET z == S.zctrl[c]
    IN  IF z.midi_learn_chan # None /\ z.midi_learn_cc # None
        THEN LET r == engine_midi_unlearn(S, c)
             IN  [S |-> r.S, ret |-> IF r.ret = "True" THEN "True" ELSE "False"]
        ELSE [S |-> S, ret |-> "True"]

\* zynthian_engine.set_midi_learn(zctrl, chan, cc)
engine_set_midi_learn(S, c, chan, cc) ==
    LET occupant == S.learned_cc[chan][cc]
        \* line 700: None.midi_unlearn() raises AttributeError, swallowed
        S1 == IF occupant = Nil THEN S ELSE zctrl_midi_unlearn(S, occupant).S
        \* line 704
        S2 == engine_midi_unlearn(S1, c).S
    IN  [S |-> [zctrl |-> _set_midi_learn(S2.zctrl, c, chan, cc),
                learned_cc |-> [S2.learned_cc EXCEPT ![chan][cc] = c],
                learned_zctrls |-> DictPut(S2.learned_zctrls, get_path(S2.zctrl[c]), c)],
         ret |-> "True"]

\* --------------------------------------------------------------- the state

\* The routings the controllers are constructed with (set_options).  Controllers
\* are interchangeable, so each draws from its own few routings; together they
\* cover two controllers with the same path (one through osc_path, one through
\* graph_path), distinct paths, a "chan#cc" path and the path None.
Routes(c) ==
    CASE c = "A" -> { [NewController EXCEPT !.osc_path = "/a"] }
      [] c = "B" -> { [NewController EXCEPT !.graph_path = "/a"],
                      [NewController EXCEPT !.midi_chan = 0, !.midi_cc = 1],
                      NewController }
      [] OTHER   -> { [NewController EXCEPT !.midi_chan = 0, !.midi_cc = 1],
                      NewController }

\* The controllers the operations other than set_midi_learn are called on, and
\* those whose layer changes its MIDI channel (set_midi_chan).
Pair == {"A", "B"}
ChanCtrls == {"B"}

EmptyGrid == [chan \in Chans |-> [cc \in CCs |-> Nil]]

\* A keep_midi_learn that replaces the dictionary entry and the learn fields
\* and leaves the grid as it is.
engine_keep_midi_learn_dict_only(S, c) ==
    IF ~DictHas(S.learned_zctrls, get_path(S.zctrl[c]))
    THEN [S |-> S, ret |-> "None"]
    ELSE IF \/ S.zctrl[DictGet(S.learned_zctrls, get_path(S.zctrl[c]))].midi_learn_chan = None
            \/ S.zctrl[DictGet(S.learned_zctrls, get_path(S.zctrl[c]))].midi_learn_cc = None
    THEN [S |-> [S EXCEPT !.learned_zctrls = DictPut(@, get_path(S.zctrl[c]), c)],
          ret |-> "None"]
    ELSE [S |-> [zctrl |-> _set_midi_learn(
                              S.zctrl, c,
                              S.zctrl[DictGet(S.learned_zctrls,
                                              get_path(S.zctrl[c]))].midi_learn_chan,
                              S.zctrl[DictGet(S.learned_zctrls,
                                              get_path(S.zctrl[c]))].midi_learn_cc),
                 learned_cc |-> S.learned_cc,
                 learned_zctrls |-> DictPut(S.learned_zctrls, get_path(S.zctrl[c]), c)],
          ret |-> "True"]

\* zynthian_engine.keep_midi_learn(zctrl).  A missing path raises KeyError and a
\* None channel or CC raises TypeError at line 723, after line 722 has already
\* replaced the dictionary entry; both are swallowed at line 725.
engine_keep_midi_learn(S, c) ==
    LET zpath == get_path(S.zctrl[c])
    IN  IF ~DictHas(S.learned_zctrls, zpath)
        THEN [S |-> S, ret |-> "None"]
        ELSE LET old_zctrl == DictGet(S.learned_zctrls, zpath)
                 chan == S.zctrl[old_zctrl].midi_learn_chan
                 cc == S.zctrl[old_zctrl].midi_learn_cc
                 d == DictPut(S.learned_zctrls, zpath, c)
             IN  IF chan = None \/ cc = None
                 THEN [S |-> [S EXCEPT !.learned_zctrls = d], ret |-> "None"]
                 ELSE [S |-> [zctrl |-> _set_midi_learn(S.zctrl, c, chan, cc),
                              learned_cc |-> [S.learned_cc EXCEPT ![chan][cc] = c],
                              learned_zctrls |-> d],
                       ret |-> "True"]

\* The loop of refresh_midi_learn (lines 732-733) from entry i on: a controller
\* without a learn channel or CC raises TypeError, which nothing catches; the
\* grid keeps what the loop had written.
RECURSIVE refresh_loop(_, _, _, _)
refresh_loop(zs, d, i, grid) ==
    IF i > Len(d) THEN [grid |-> grid, ret |-> "None"]
    ELSE LET z == zs[d[i].zctrl]
         IN  IF z.midi_learn_chan = None \/ z.midi_learn_cc = None
             THEN [grid |-> grid, ret |-> "TypeError"]
             ELSE refresh_loop(zs, d, i + 1,
                      [grid EXCEPT ![z.midi_learn_chan][z.midi_learn_cc] = d[i].zctrl])

\* zynthian_engine.refresh_midi_learn
engine_refresh_midi_learn(S) ==
    LET r == refresh_loop(S.zctrl, S.learned_zctrls, 1, EmptyGrid)
    IN  [S |-> [S EXCEPT !.learned_cc = r.grid], ret |-> r.ret]

\* zynthian_engine.reset_midi_learn
engine_reset_midi_learn(S) ==
    [S |-> [S EXCEPT !.learned_zctrls = <<>>, !.learned_cc = EmptyGrid], ret |-> "None"]

\* zynthian_controller.set_midi_chan(chan); "if self.midi_learn_cc" is false for
\* None and for CC number 0.
zctrl_set_midi_chan(z, chan, single_active) ==
    LET z1 == [z EXCEPT !.midi_chan = chan]
    IN  IF single_active
        THEN IF z.midi_learn_cc # None /\ z.midi_learn_cc # 0
             THEN [z1 EXCEPT !.midi_learn_chan = chan] ELSE z1
        ELSE IF z.midi_cc # None /\ z.midi_learn_cc = z.midi_cc
             THEN [z1 EXCEPT !.midi_learn_chan = chan] ELSE z1

\* ------------------------------------------------------- controller values

\* zynthian_controller.get_label2value: a missing label (KeyError), a missing
\* dictionary (TypeError) and missing ticks are logged and None is returned.
get_label2value(z, label) ==
    IF z.ticks # <<>> /\ label \in DOMAIN z.label2value
    THEN Num(z.label2value[label])
    ELSE PyNone

\* zynthian_controller._set_value(val); exc is the exception that escapes.  A
\* comparison with None raises TypeError, and so does int(None).
_set_value(z, val) ==
    IF val.k = "str"
    THEN [z |-> [z EXCEPT !.value = get_label2value(z, val.s)], exc |-> Nil]
    ELSE IF z.is_toggle
    THEN IF val.k # "num"
         THEN IF (z.value_min = None \/ z.value_max = None) /\ ~z.is_integer
              THEN [z |-> [z EXCEPT !.value = val], exc |-> Nil]
              ELSE [z |-> z, exc |-> "TypeError"]
         ELSE IF \/ (z.value_min # None /\ val.v = z.value_min)
                 \/ (z.value_max # None /\ val.v = z.value_max)
         THEN [z |-> [z EXCEPT !.value = IF z.is_integer THEN Num(py_int(val.v)) ELSE val],
               exc |-> Nil]
         ELSE IF z.value_mid = None
         THEN [z |-> z, exc |-> "TypeError"]
         ELSE IF val.v < z.value_mid
         THEN [z |-> [z EXCEPT !.value = FromField(z.value_min)], exc |-> Nil]
         ELSE [z |-> [z EXCEPT !.value = FromField(z.value_max)], exc |-> Nil]
    ELSE IF val.k # "num"
    THEN [z |-> z, exc |-> "TypeError"]
    ELSE LET v == IF z.ticks = <<>> /\ z.is_integer THEN py_int(val.v) ELSE val.v
         IN  IF z.value_max = None THEN [z |-> z, exc |-> "TypeError"]
             ELSE IF v > z.value_max
             THEN [z |-> [z EXCEPT !.value = Num(z.value_max)], exc |-> Nil]
             ELSE IF z.value_min = None THEN [z |-> z, exc |-> "TypeError"]
             ELSE IF v < z.value_min
             THEN [z |-> [z EXCEPT !.value = Num(z.value_min)], exc |-> Nil]
             ELSE [z |-> [z EXCEPT !.value = Num(v)], exc |-> Nil]

\* zynthian_controller.get_ctrl_midi_val: every exception inside is caught and
\* gives 0 (a None among the operands, a logarithm of a number <= 0).
get_ctrl_midi_val(z) ==
    IF z.value_range = 0 THEN 0
    ELSE IF z.value.k # "num" \/ z.value_range = None \/ z.value_min = None
            \/ z.value_max = None
    THEN 0
    ELSE IF z.is_logarithmic
    THEN IF log_arg(z) <= 0 THEN 0 ELSE log10_midi(log_arg(z))
    ELSE Min(127, TruncDiv(127 * (z.value.v - z.value_min), z.value_range))

\* zynthian_controller.get_ctrl_osc_val; on a toggle whose value is None the
\* comparison None > 0 raises TypeError (osc_val_raises).
osc_val_raises(z) == z.is_toggle /\ z.value.k # "num"

get_ctrl_osc_val(z) ==
    IF z.is_toggle THEN Bool(z.value.k = "num" /\ z.value.v > 0) ELSE z.value

\* One message handed to a sink: the engine's send_controller_value, liblo.send,
\* lib_zyncore.ui_send_ccontrol_change or lib_zyncore.ctrlfb_send_ccontrol_change;
\* ok is whether the sink took it or raised.
Msg(sink, ok, chan, cc, val) ==
    [sink |-> sink, ok |-> ok, chan |-> chan, cc |-> cc, val |-> val]

\* Which sinks work during one call: the engine has its own way of sending, or
\* it has none (send_controller_value raises, as zynthian_engine's does) and
\* then either all other sinks work or none does.
IOs ==
    { [engine |-> TRUE, osc |-> TRUE, midi |-> TRUE, feedback |-> TRUE],
      [engine |-> FALSE, osc |-> TRUE, midi |-> TRUE, feedback |-> TRUE],
      [engine |-> FALSE, osc |-> FALSE, midi |-> FALSE, feedback |-> FALSE] }

\* Lines 349-369 of set_value: the value goes to the engine and, when that
\* raises, to OSC or else to MIDI.
deliver(z, send, io, mval) ==
    IF ~send THEN <<>>
    ELSE IF io.engine THEN << Msg("engine", TRUE, None, None, z.value) >>
    ELSE << Msg("engine", FALSE, None, None, z.value) >>
         \o ( IF z.osc_path # Nil /\ z.osc_path # ""
              THEN << Msg("osc", io.osc /\ ~osc_val_raises(z), None, None,
                          get_ctrl_osc_val(z)) >>
              ELSE IF Truthy(z.midi_cc)
              THEN << Msg("midi", io.midi, z.midi_chan, z.midi_cc, Num(mval)) >>
              ELSE <<>> )

\* Lines 371-381 of set_value: the feedback to MIDI controllers.
feedback(z, io, mval) ==
    IF Truthy(z.midi_learn_cc)
    THEN << Msg("feedback", io.feedback, z.midi_learn_chan, z.midi_learn_cc, Num(mval)) >>
    ELSE IF Truthy(z.midi_cc)
    THEN << Msg("feedback", io.feedback, z.midi_chan, z.midi_cc, Num(mval)) >>
    ELSE <<>>

\* Lines 346-383 of a set_value that returns whether the value changed.
set_value_reporting(old_val, z, send, io) ==
    IF old_val = z.value THEN [z |-> z, ret |-> "False", sent |-> <<>>]
    ELSE [z |-> [z EXCEPT !.is_dirty = TRUE],
          ret |-> "True",
          sent |-> IF z.engine
                   THEN deliver(z, send, io, get_ctrl_midi_val(z))
                        \o feedback(z, io, get_ctrl_midi_val(z))
                   ELSE <<>>]

\* Lines 349-383 of set_value without the early return of lines 346-347.
set_value_unconditional(old_val, z, send, io) ==
    [z |-> [z EXCEPT !.is_dirty = TRUE],
     ret |-> "None",
     sent |-> IF z.engine
              THEN deliver(z, send, io, get_ctrl_midi_val(z))
                   \o feedback(z, io, get_ctrl_midi_val(z))
              ELSE <<>>]

\* Lines 346-383 of a set_value that lets the exception of a failing sink
\* escape, before is_dirty is set.
set_value_propagating(old_val, z, send, io) ==
    IF old_val = z.value THEN [z |-> z, ret |-> "None", sent |-> <<>>]
    ELSE IF z.engine /\ \E i \in 1..Len(deliver(z, send, io, get_ctrl_midi_val(z))
                                         \o feedback(z, io, get_ctrl_midi_val(z))) :
                         ~(deliver(z, send, io, get_ctrl_midi_val(z))
                           \o feedback(z, io, get_ctrl_midi_val(z)))[i].ok
    THEN [z |-> z, ret |-> "Exception",
          sent |-> deliver(z, send, io, get_ctrl_midi_val(z))
                   \o feedback(z, io, get_ctrl_midi_val(z))]
    ELSE [z |-> [z EXCEPT !.is_dirty = TRUE],
          ret |-> "None",
          sent |-> IF z.engine
                   THEN deliver(z, send, io, get_ctrl_midi_val(z))
                        \o feedback(z, io, get_ctrl_midi_val(z))
                   ELSE <<>>]

\* Lines 346-383 of set_value, old_val being the value read at line 344 and z
\* the controller after _set_value
set_value_changed(old_val, z, send, io) ==
    IF old_val = z.value THEN [z |-> z, ret |-> "None", sent |-> <<>>]
    ELSE [z |-> [z EXCEPT !.is_dirty = TRUE],
          ret |-> "None",
          sent |-> IF z.engine
                   THEN deliver(z, send, io, get_ctrl_midi_val(z))
                        \o feedback(z, io, get_ctrl_midi_val(z))
                   ELSE <<>>]

\* Lines 345-383 of set_value, r being what _set_value did
set_value_after(old_val, r, send, io) ==
    IF r.exc # Nil THEN [z |-> r.z, ret |-> r.exc, sent |-> <<>>]
    ELSE set_value_changed(old_val, r.z, send, io)

\* zynthian_controller.set_value(val, send): ret is the returned value or the
\* exception that escapes, sent the messages handed to the sinks.
set_value(z, val, send, io) == set_value_after(z.value, _set_value(z, val), send, io)

\* The scan of get_value2index from tick i on (ticks are numbered from 0)
RECURSIVE value2index_scan(_, _, _, _, _)
value2index_scan(ticks, val, i, index, dval) ==
    IF i >= Len(ticks) THEN index
    ELSE LET ndval == Abs(ticks[i + 1] - val)
         IN  IF ndval < dval THEN value2index_scan(ticks, val, i + 1, i, ndval)
             ELSE index

\* zynthian_controller.get_value2index(val); None without ticks, and None when
\* val is not a number (TypeError, logged).
get_value2index(z, val) ==
    IF z.ticks = <<>> \/ val.k # "num" THEN None
    ELSE value2index_scan(z.ticks, val.v, 1, 0, Abs(z.ticks[1] - val.v))

\* An exception that escapes a function that returns a value
Raised(exc) == [k |-> "exc", s |-> exc]

\* Lines 412-415 of get_value2label, i being what get_value2index returned
label_at(z, val, i) ==
    IF i = None THEN val
    ELSE IF z.labels = <<>> THEN Raised("TypeError")
    ELSE IF i >= Len(z.labels) THEN Raised("IndexError")
    ELSE Str(z.labels[i + 1])

\* zynthian_controller.get_value2label(val): the label of the nearest tick, or
\* val itself when there are no ticks
get_value2label(z, val) ==
    IF val = PyNone THEN label_at(z, z.value, get_value2index(z, z.value))
    ELSE label_at(z, val, get_value2index(z, val))

\* "return True" at line 307, after a set_value that raised nothing
nudged(r) == [r EXCEPT !.ret = IF r.ret = "None" THEN "True" ELSE r.ret]

\* An exception that escapes before anything is changed
raised(z, exc) == [z |-> z, ret |-> exc, sent |-> <<>>]

\* Lines 297-299 of nudge: the index moved by val, kept inside the ticks
nudge_index(i, val, n) ==
    IF i + val < 0 THEN 0 ELSE IF i + val >= n THEN n - 1 ELSE i + val

\* Lines 302-304 of nudge, arg being the argument of the logarithm: the
\* logarithm moved by val * nudge_factor and kept in [0, 1] is the argument
\* moved by val steps and kept in [1, 10].
nudge_log(z, arg, val) ==
    TruncDiv(( IF pow10_steps(arg, val) < Whole(1) THEN Whole(1)
               ELSE IF pow10_steps(arg, val) > Whole(10) THEN Whole(10)
               ELSE pow10_steps(arg, val) ) * (z.value_range \div Scale)
             + (10 * z.value_min - z.value_max), 9)

\* zynthian_controller.nudge(val, send).  None + val raises TypeError, and
\* math.log10 of a number <= 0 raises ValueError.
nudge(z, val, send, io) ==
    IF z.nudge_factor = None THEN [z |-> z, ret |-> "False", sent |-> <<>>]
    ELSE IF z.ticks # <<>>
    THEN IF get_value2index(z, z.value) = None THEN raised(z, "TypeError")
         ELSE nudged(set_value(z, Num(z.ticks[nudge_index(get_value2index(z, z.value), val,
                                                          Len(z.ticks)) + 1]),
                               send, io))
    ELSE IF z.value.k # "num" THEN raised(z, "TypeError")
    ELSE IF z.is_logarithmic /\ Truthy(z.value_range)
    THEN IF log_arg(z) <= 0 THEN raised(z, "ValueError")
         ELSE nudged(set_value(z, Num(nudge_log(z, log_arg(z), val)), TRUE, io))
    ELSE nudged(set_value(z, Num(z.value.v + val * z.nudge_factor), send, io))

\* zynthian_controller.midi_control_change(val)
midi_control_change(z, val, io) ==
    IF z.value_min = None \/ z.value_range = None
    THEN [z |-> z, ret |-> "TypeError", sent |-> <<>>]
    ELSE IF z.is_logarithmic
    THEN set_value(z, Num(z.value_min
                          + TruncDiv((z.value_range \div Scale) * (Pow10Table[val + 1] - Scale), 9)),
                   TRUE, io)
    ELSE set_value(z, Num(z.value_min + TruncDiv(val * z.value_range, 127)), TRUE, io)

\* ------------------------------------------------------ configuration

\* options[key] when the key is given, the field as it is otherwise
Opt(options, key, old) == IF key \in DOMAIN options THEN options[key] ELSE old

\* "if x == None: x = d"
Default(x, d) == IF x = None THEN d ELSE x

\* The two dictionaries of lines 162-166 after the first m labels: a label or
\* tick that comes twice keeps its last entry.
LabelDict(labels, ticks, m) ==
    [l \in {labels[i] : i \in 1..m} |->
        ticks[CHOOSE i \in 1..m : labels[i] = l /\ \A j \in (i + 1)..m : labels[j] # l]]

TickDict(labels, ticks, m) ==
    [t \in {ticks[i] : i \in 1..m} |->
        labels[CHOOSE i \in 1..m : ticks[i] = t /\ \A j \in (i + 1)..m : ticks[j] # t]]

\* Lines 136-147 of _configure: n ticks spread over [value_min, value_max]
generated_ticks(value_min, value_max, n, is_integer) ==
    IF n = 1 THEN << value_min >>
    ELSE IF is_integer
    THEN [i \in 1..n |-> value_min + py_int(TruncDiv((i - 1) * (value_max - value_min), n - 1))]
    ELSE [i \in 1..n |-> value_min + TruncDiv((i - 1) * (value_max - value_min), n - 1)]

\* Lines 132-147 of _configure: labels without ticks get their ticks
configure_ticks(z) ==
    IF z.labels # <<>> /\ z.ticks = <<>>
    THEN [z EXCEPT !.value_min = Default(@, 0),
                   !.value_max = Default(@, Whole(Len(z.labels) - 1)),
                   !.ticks = generated_ticks(Default(z.value_min, 0),
                                             Default(z.value_max, Whole(Len(z.labels) - 1)),
                                             Len(z.labels), z.is_integer)]
    ELSE z

\* Lines 150-166 of _configure: the bounds from the ticks, and the dictionaries
\* (as far as line 165 gets when there are fewer ticks than labels)
configure_selector(z) ==
    IF z.labels = <<>> THEN z
    ELSE IF z.ticks[1] <= z.ticks[Len(z.ticks)]
    THEN [z EXCEPT !.value_min = Default(@, z.ticks[1]),
                   !.value_max = Default(@, z.ticks[Len(z.ticks)]),
                   !.range_reversed = FALSE,
                   !.label2value = LabelDict(z.labels, z.ticks, Min(Len(z.labels), Len(z.ticks))),
                   !.value2label = TickDict(z.labels, z.ticks, Min(Len(z.labels), Len(z.ticks)))]
    ELSE [z EXCEPT !.value_min = z.ticks[Len(z.ticks)],
                   !.value_max = z.ticks[1],
                   !.range_reversed = TRUE,
                   !.label2value = LabelDict(z.labels, z.ticks, Min(Len(z.labels), Len(z.ticks))),
                   !.value2label = TickDict(z.labels, z.ticks, Min(Len(z.labels), Len(z.ticks)))]

\* Lines 169-172 of _configure
configure_range(z) ==
    [z EXCEPT !.value_min = Default(@, 0),
              !.value_max = Default(@, Whole(127)),
              !.value_range = Default(z.value_max, Whole(127)) - Default(z.value_min, 0)]

\* Lines 174-178 of _configure
configure_mid(z) ==
    IF z.value_mid # None THEN z
    ELSE IF z.is_integer
    THEN [z EXCEPT !.value_mid = z.value_min + py_int(TruncDiv(z.value_range, 2))]
    ELSE [z EXCEPT !.value_mid = z.value_min + TruncDiv(z.value_range, 2)]

\* Lines 182-191 of _configure
configure_defaults(z) ==
    [z EXCEPT !.value_default = IF @ = PyNone THEN z.value ELSE @,
              !.nudge_factor =
                  IF @ # None THEN @
                  ELSE IF z.is_logarithmic THEN TruncDiv(Whole(1), 200)
                  ELSE IF ~z.is_integer /\ ~z.is_toggle THEN TruncDiv(z.value_range, 200)
                  ELSE Whole(1)]

\* Lines 181-191 of _configure, r being what self._set_value(self.value) did
configure_value(z, r) ==
    IF r.exc # Nil THEN [z |-> z, exc |-> r.exc]
    ELSE [z |-> configure_defaults(r.z), exc |-> Nil]

\* Lines 169-191 of _configure
configure_common(z) == configure_value(z, _set_value(z, z.value))

\* Lines 150-191 of _configure, z being the controller with its ticks
configure_from_ticks(z) ==
    IF z.labels # <<>> /\ Len(z.ticks) < Len(z.labels)
    THEN [z |-> configure_selector(z), exc |-> "IndexError"]
    ELSE configure_common(configure_mid(configure_range(configure_selector(z))))

\* zynthian_controller._configure; exc is the exception that escapes: IndexError
\* at line 165 when there are fewer ticks than labels, TypeError from
\* _set_value.  What was assigned before the exception stays assigned.
_configure(z) == configure_from_ticks(configure_ticks(z))

\* The option keys of set_options that this model reads
with_options(z, options) ==
    [z EXCEPT
       !.value = Opt(options, "value", @),
       !.value_default = Opt(options, "value_default", @),
       !.value_min = Opt(options, "value_min", @),
       !.value_max = Opt(options, "value_max", @),
       !.labels = Opt(options, "labels", @),
       !.ticks = Opt(options, "ticks", @),
       !.is_toggle = Opt(options, "is_toggle", @),
       !.is_integer = Opt(options, "is_integer", @),
       !.nudge_factor = Opt(options, "nudge_factor", @),
       !.is_logarithmic = Opt(options, "is_logarithmic", @),
       !.midi_chan = Opt(options, "midi_chan", @),
       !.midi_cc = Opt(options, "midi_cc", @),
       !.osc_path = Opt(options, "osc_path", @),
       !.graph_path = Opt(options, "graph_path", @)]

\* What a method that ends in _configure gives back: the controller and, for
\* ret, the exception that escaped or else the value given.
configured(r, given) == [z |-> r.z, ret |-> IF r.exc # Nil THEN r.exc ELSE given]

\* zynthian_controller.set_options(options): the keys given replace the fields,
\* then _configure; nothing is returned.
set_options(z, options) == configured(_configure(with_options(z, options)), "None")

\* zynthian_controller.set_midi_learn(chan, cc): the engine's, when there is one
zctrl_set_midi_learn(S, c, chan, cc) ==
    IF S.zctrl[c].engine THEN engine_set_midi_learn(S, c, chan, cc)
    ELSE [S |-> S, ret |-> "None"]

\* Lines 196-204 of setup_controller: cc is a string (an OSC path), a CC number
\* or None
setup_routing(z, chan, cc) ==
    [z EXCEPT !.midi_chan = chan,
              !.osc_path = IF cc.k = "str" THEN cc.s ELSE @,
              !.midi_cc = IF cc.k = "str" THEN @ ELSE IF cc.k = "num" THEN cc.v ELSE None]

\* Lines 206-225 of setup_controller: maxval is an int, a float, a string
\* "a|b|c" (its labels here), a list of labels, or a list of labels and ticks
setup_maxval(z, val, maxval) ==
    [z EXCEPT
       !.value = val,
       !.is_toggle = FALSE,
       !.is_integer = maxval.k # "float",
       !.is_logarithmic = FALSE,
       !.value_max = IF maxval.k \in {"int", "float"} THEN maxval.v ELSE @,
       !.labels = IF maxval.k \in {"str", "list", "list2"} THEN maxval.labels ELSE @,
       !.ticks = IF maxval.k = "list2" THEN maxval.ticks ELSE @]

\* Lines 228-231 of setup_controller: two labels make a toggle
setup_toggle(z) ==
    IF Len(z.labels) = 2
    THEN [z EXCEPT !.is_toggle = TRUE,
                   !.value_max = IF z.ticks = <<>> THEN Whole(127) ELSE @]
    ELSE z

\* The end of a controller method that has changed controller c into r.z
put_zctrl(S, c, r) == [S |-> [S EXCEPT !.zctrl[c] = r.z], ret |-> r.ret]

\* Lines 206-233 of setup_controller, S being the state after line 204
setup_configure(S, c, val, maxval) ==
    put_zctrl(S, c,
              configured(_configure(setup_toggle(setup_maxval(S.zctrl[c], val, maxval))), "None"))

\* zynthian_controller.setup_controller(chan, cc, val, maxval)
setup_controller(S, c, chan, cc, val, maxval) ==
    IF cc.k = "num" /\ chan # None /\ S.zctrl[c].midi_learn_cc = None
    THEN setup_configure(
             zctrl_set_midi_learn([S EXCEPT !.zctrl[c] = setup_routing(@, chan, cc)],
                                  c, chan, cc.v).S,
             c, val, maxval)
    ELSE setup_configure([S EXCEPT !.zctrl[c] = setup_routing(@, chan, cc)], c, val, maxval)

\* zynthian_controller.get_state: math.isnan raises TypeError on None
get_state(z) ==
    IF z.value.k # "num" THEN [exc |-> "TypeError"]
    ELSE IF z.midi_learn_chan # None /\ z.midi_learn_cc # None
    THEN [value |-> z.value, midi_learn_chan |-> z.midi_learn_chan,
          midi_learn_cc |-> z.midi_learn_cc]
    ELSE [value |-> z.value]

\* Lines 475-477 of restore_state, r being what set_value did
restore_learn(S, c, state, r) ==
    IF r.ret = "None" /\ {"midi_learn_chan", "midi_learn_cc"} \subseteq DOMAIN state
    THEN [S |-> zctrl_set_midi_learn([S EXCEPT !.zctrl[c] = r.z], c,
                                     state.midi_learn_chan, state.midi_learn_cc).S,
          ret |-> "None", sent |-> r.sent]
    ELSE [S |-> [S EXCEPT !.zctrl[c] = r.z], ret |-> r.ret, sent |-> r.sent]

\* zynthian_controller.restore_state(state), state a dictionary
restore_state(S, c, state, io) ==
    restore_learn(S, c, state, set_value(S.zctrl[c], state.value, TRUE, io))

\* The end of zynthian_engine.midi_control_change, r being what the
\* controller's midi_control_change did
dispatched(S, c, r) == [S |-> [S EXCEPT !.zctrl[c] = r.z], ret |-> r.ret, sent |-> r.sent]

\* An engine.midi_control_change that looks the CC number up on every channel
\* and dispatches to the first controller found.
engine_midi_control_change_any_chan(S, chan, ccnum, val, io) ==
    IF \A ch \in Chans : S.learned_cc[ch][ccnum] = Nil
    THEN [S |-> S, ret |-> "None", sent |-> <<>>]
    ELSE dispatched(S, S.learned_cc[CHOOSE ch \in Chans : S.learned_cc[ch][ccnum] # Nil][ccnum],
                    midi_control_change(
                        S.zctrl[S.learned_cc[CHOOSE ch \in Chans :
                                                 S.learned_cc[ch][ccnum] # Nil][ccnum]],
                        val, io))

\* zynthian_engine.midi_control_change(chan, ccnum, val)
engine_midi_control_change(S, chan, ccnum, val, io) ==
    IF S.learned_cc[chan][ccnum] = Nil THEN [S |-> S, ret |-> "None", sent |-> <<>>]
    ELSE dispatched(S, S.learned_cc[chan][ccnum],
                    midi_control_change(S.zctrl[S.learned_cc[chan][ccnum]], val, io))

\* --------------------------------------------------------------- the state

HasLearn(z) == z.midi_learn_chan # None /\ z.midi_learn_cc # None

\* The last operation: its name and the controller it was called on.  For
\* midi_unlearn also: again, whether it repeats the call just before it, and
\* bound, whether the controller had a learn binding when the (first) call was
\* made.  For the value operations also: val, the value, step or CC value
\* given, and send, the send flag.
NoOp == [name |-> "init", zctrl |-> Nil, again |-> FALSE, bound |-> FALSE,
         val |-> PyNone, send |-> FALSE]

Called(name, c) ==
    LET again == name = "midi_unlearn" /\ op.name = name /\ op.zctrl = c
    IN  [name |-> name, zctrl |-> c, again |-> again,
         bound |-> IF again THEN op.bound
                   ELSE IF name = "midi_unlearn" THEN HasLearn(zctrl[c]) ELSE FALSE,
         val |-> PyNone, send |-> FALSE]

\* The UI thread between two operations, and the control thread before its
\* first lookup.
UiIdle == [pc |-> "idle", zctrl |-> Nil, chan |-> None, cc |-> None,
           x |-> Nil, next |-> "idle", i |-> 0]

NoLookup == [chan |-> None, cc |-> None, zctrl |-> Nil]

\* The threads that call set_value, and a thread outside set_value.
Threads == {"ui", "control"}

ThrIdle == [t \in Threads |-> [pc |-> "idle", val |-> PyNone, old_val |-> PyNone,
                                send |-> TRUE, changed |-> FALSE, sent |-> <<>>]]

\* zynthian_engine.__init__ (lines 202-203) with the controllers constructed.
InitLearn ==
    /\ zctrl \in [Ctrls -> UNION {Routes(c) : c \in Ctrls}]
    /\ \A c \in Ctrls : zctrl[c] \in Routes(c)
    /\ learned_cc = EmptyGrid
    /\ learned_zctrls = <<>>
    /\ op = NoOp
    /\ ret = "None"
    /\ ui = UiIdle
    /\ observed = NoLookup
    /\ sent = <<>>
    /\ thr = ThrIdle
    /\ ignore_not_on_gui = FALSE
    /\ _ctrl_screens = <<>>
    /\ midi_learn_mode = FALSE
    /\ midi_learn_zctrl = Nil

\* An operation run as one step: no thread is observed inside it.
Commit(r) ==
    /\ zctrl' = r.S.zctrl
    /\ learned_cc' = r.S.learned_cc
    /\ learned_zctrls' = r.S.learned_zctrls
    /\ ret' = r.ret
    /\ UNCHANGED <<ui, observed, sent, thr>>

\* engine.set_midi_learn(c, chan, cc), as called by zctrl.set_midi_learn / cb_midi_learn
SetMidiLearn(CS) ==
    \E c \in CS, chan \in Chans, cc \in CCs :
        /\ Commit(engine_set_midi_learn(LearnState, c, chan, cc))
        /\ op' = Called("set_midi_learn", c)
        /\ UNCHANGED <<midi_single_active_channel, midi_learn_mode, midi_learn_zctrl, ignore_not_on_gui, _ctrl_screens>>

\* c.midi_unlearn()
MidiUnlearn(CS) ==
    \E c \in CS :
        /\ Commit(zctrl_midi_unlearn(LearnState, c))
        /\ op' = Called("midi_unlearn", c)
        /\ UNCHANGED <<midi_single_active_channel, midi_learn_mode, midi_learn_zctrl, ignore_not_on_gui, _ctrl_screens>>

\* engine.keep_midi_learn(c)
KeepMidiLearn(CS) ==
    \E c \in CS :
        /\ Commit(engine_keep_midi_learn(LearnState, c))
        /\ op' = Called("keep_midi_learn", c)
        /\ UNCHANGED <<midi_single_active_channel, midi_learn_mode, midi_learn_zctrl, ignore_not_on_gui, _ctrl_screens>>

\* c.set_midi_chan(chan)
SetMidiChan(CS) ==
    \E c \in CS, chan \in Chans :
        /\ zctrl' = [zctrl EXCEPT ![c] = zctrl_set_midi_chan(@, chan, midi_single_active_channel)]
        /\ op' = Called("set_midi_chan", c)
        /\ ret' = "None"
        /\ UNCHANGED <<learned_cc, learned_zctrls, midi_single_active_channel, midi_learn_mode, midi_learn_zctrl, ignore_not_on_gui, _ctrl_screens, ui, observed,
                       sent, thr>>

\* engine.refresh_midi_learn()
RefreshMidiLearn ==
    /\ Commit(engine_refresh_midi_learn(LearnState))
    /\ op' = Called("refresh_midi_learn", Nil)
    /\ UNCHANGED <<midi_single_active_channel, midi_learn_mode, midi_learn_zctrl, ignore_not_on_gui, _ctrl_screens>>

\* engine.reset_midi_learn()
ResetMidiLearn ==
    /\ Commit(engine_reset_midi_learn(LearnState))
    /\ op' = Called("reset_midi_learn", Nil)
    /\ UNCHANGED <<midi_single_active_channel, midi_learn_mode, midi_learn_zctrl, ignore_not_on_gui, _ctrl_screens>>

\* Only set_midi_learn calls, on three controllers.
NextBind == SetMidiLearn(Ctrls)

InitBind == InitLearn /\ midi_single_active_channel = FALSE

SpecBind == InitBind /\ [][NextBind]_vars

\* set_midi_learn, midi_unlearn, keep_midi_learn and set_midi_chan, on two
\* controllers; the third stays as constructed.
NextLearn ==
    \/ SetMidiLearn(Pair)
    \/ MidiUnlearn(Pair)
    \/ KeepMidiLearn(Pair)
    \/ SetMidiChan(ChanCtrls)

InitPair == InitLearn /\ zctrl["C"] = NewController /\ midi_single_active_channel \in BOOLEAN

SpecLearn == InitPair /\ [][NextLearn]_vars

\* Every operation on the learn state.
NextLearnAll == NextLearn \/ RefreshMidiLearn \/ ResetMidiLearn

SpecLearnAll == InitPair /\ [][NextLearnAll]_vars

\* ---------------------------------------------- the operations line by line

\* The UI thread runs set_midi_learn, midi_unlearn and refresh_midi_learn one
\* statement at a time; no lock is taken (zynthian_gui.lock is never acquired),
\* so the control thread's lookup in engine.midi_control_change can run between
\* any two of them.  ui.pc is the line about to run, ui.x the controller being
\* unlearned and ui.next the line to go on with after the unlearning.

UiGoto(pc) == ui' = [ui EXCEPT !.pc = pc]

UiFrame == UNCHANGED <<midi_single_active_channel, midi_learn_mode, midi_learn_zctrl, ignore_not_on_gui, _ctrl_screens, op, ret, observed, sent, thr>>

\* UI thread: engine.set_midi_learn(c, chan, cc) is called
UiCallSetMidiLearn ==
    \E c \in Pair, chan \in Chans, cc \in CCs :
        /\ ui.pc = "idle"
        /\ ui' = [UiIdle EXCEPT !.pc = "L700", !.zctrl = c, !.chan = chan, !.cc = cc]
        /\ UNCHANGED <<zctrl, learned_cc, learned_zctrls>> /\ UiFrame

\* line 700: self.learned_cc[chan][cc].midi_unlearn(), with the test at line 503
UiL700 ==
    /\ ui.pc = "L700"
    /\ LET occupant == learned_cc[ui.chan][ui.cc]
       IN  IF occupant # Nil /\ HasLearn(zctrl[occupant])
           THEN ui' = [ui EXCEPT !.pc = "L686", !.x = occupant, !.next = "L704"]
           ELSE UiGoto("L704")
    /\ UNCHANGED <<zctrl, learned_cc, learned_zctrls>> /\ UiFrame

\* line 704: self.midi_unlearn(zctrl)
UiL704 ==
    /\ ui.pc = "L704"
    /\ ui' = [ui EXCEPT !.pc = "L686", !.x = ui.zctrl, !.next = "L709"]
    /\ UNCHANGED <<zctrl, learned_cc, learned_zctrls>> /\ UiFrame

\* line 686: if zctrl.get_path() in self.learned_zctrls
UiL686 ==
    /\ ui.pc = "L686"
    /\ IF DictHas(learned_zctrls, get_path(zctrl[ui.x]))
       THEN UiGoto("L689") ELSE UiGoto(ui.next)
    /\ UNCHANGED <<zctrl, learned_cc, learned_zctrls>> /\ UiFrame

\* line 689: self.learned_cc[zctrl.midi_learn_chan][zctrl.midi_learn_cc] = None
UiL689 ==
    /\ ui.pc = "L689"
    /\ IF HasLearn(zctrl[ui.x])
       THEN /\ learned_cc' = [learned_cc EXCEPT
                   ![zctrl[ui.x].midi_learn_chan][zctrl[ui.x].midi_learn_cc] = Nil]
            /\ UiGoto("L690")
       ELSE /\ UNCHANGED learned_cc
            /\ UiGoto(ui.next)
    /\ UNCHANGED <<zctrl, learned_zctrls>> /\ UiFrame

\* line 690: del self.learned_zctrls[zctrl.get_path()]
UiL690 ==
    /\ ui.pc = "L690"
    /\ learned_zctrls' = DictDel(learned_zctrls, get_path(zctrl[ui.x]))
    /\ UiGoto("L541")
    /\ UNCHANGED <<zctrl, learned_cc>> /\ UiFrame

\* line 541: self.midi_learn_chan = None
UiL541 ==
    /\ ui.pc = "L541"
    /\ zctrl' = [zctrl EXCEPT ![ui.x].midi_learn_chan = None]
    /\ UiGoto("L542")
    /\ UNCHANGED <<learned_cc, learned_zctrls>> /\ UiFrame

\* line 542: self.midi_learn_cc = None
UiL542 ==
    /\ ui.pc = "L542"
    /\ zctrl' = [zctrl EXCEPT ![ui.x].midi_learn_cc = None]
    /\ IF ui.next = "idle" THEN ui' = UiIdle ELSE UiGoto(ui.next)
    /\ UNCHANGED <<learned_cc, learned_zctrls>> /\ UiFrame

\* line 709: self.learned_zctrls[zctrl.get_path()] = zctrl
UiL709 ==
    /\ ui.pc = "L709"
    /\ learned_zctrls' = DictPut(learned_zctrls, get_path(zctrl[ui.zctrl]), ui.zctrl)
    /\ UiGoto("L710")
    /\ UNCHANGED <<zctrl, learned_cc>> /\ UiFrame

\* line 710: self.learned_cc[chan][cc] = zctrl
UiL710 ==
    /\ ui.pc = "L710"
    /\ learned_cc' = [learned_cc EXCEPT ![ui.chan][ui.cc] = ui.zctrl]
    /\ UiGoto("L534")
    /\ UNCHANGED <<zctrl, learned_zctrls>> /\ UiFrame

\* line 534: self.midi_learn_chan = chan
UiL534 ==
    /\ ui.pc = "L534"
    /\ zctrl' = [zctrl EXCEPT ![ui.zctrl].midi_learn_chan = ui.chan]
    /\ UiGoto("L535")
    /\ UNCHANGED <<learned_cc, learned_zctrls>> /\ UiFrame

\* line 535: self.midi_learn_cc = cc
UiL535 ==
    /\ ui.pc = "L535"
    /\ zctrl' = [zctrl EXCEPT ![ui.zctrl].midi_learn_cc = ui.cc]
    /\ ui' = UiIdle
    /\ UNCHANGED <<learned_cc, learned_zctrls>> /\ UiFrame

\* UI thread: c.midi_unlearn() is called on a controller with a learn binding
\* (line 503; without one the call returns at once)
UiCallMidiUnlearn ==
    \E c \in Pair :
        /\ ui.pc = "idle"
        /\ HasLearn(zctrl[c])
        /\ ui' = [UiIdle EXCEPT !.pc = "L686", !.zctrl = c, !.x = c]
        /\ UNCHANGED <<zctrl, learned_cc, learned_zctrls>> /\ UiFrame

\* UI thread: engine.refresh_midi_learn() is called; line 731 replaces the grid
UiL731 ==
    /\ ui.pc = "idle"
    /\ learned_cc' = EmptyGrid
    /\ ui' = [UiIdle EXCEPT !.pc = "L733", !.i = 1]
    /\ UNCHANGED <<zctrl, learned_zctrls>> /\ UiFrame

\* lines 732-733: one turn of the loop
UiL733 ==
    /\ ui.pc = "L733"
    /\ IF ui.i > Len(learned_zctrls)
       THEN ui' = UiIdle /\ UNCHANGED learned_cc
       ELSE LET c == learned_zctrls[ui.i].zctrl
            IN  IF HasLearn(zctrl[c])
                THEN /\ learned_cc' = [learned_cc EXCEPT
                            ![zctrl[c].midi_learn_chan][zctrl[c].midi_learn_cc] = c]
                     /\ ui' = [ui EXCEPT !.i = ui.i + 1]
                ELSE ui' = UiIdle /\ UNCHANGED learned_cc
    /\ UNCHANGED <<zctrl, learned_zctrls>> /\ UiFrame

\* Control thread: the lookup of engine.midi_control_change(chan, ccnum, val),
\* line 751
Lookup ==
    \E chan \in Chans, cc \in CCs :
        /\ observed' = [chan |-> chan, cc |-> cc, zctrl |-> learned_cc[chan][cc]]
        /\ UNCHANGED <<zctrl, learned_cc, learned_zctrls, midi_single_active_channel, midi_learn_mode, midi_learn_zctrl, ignore_not_on_gui, _ctrl_screens,
                       op, ret, ui, sent, thr>>

NextRebind ==
    \/ UiCallSetMidiLearn \/ UiL700 \/ UiL704 \/ UiL686 \/ UiL689 \/ UiL690
    \/ UiL541 \/ UiL542 \/ UiL709 \/ UiL710 \/ UiL534 \/ UiL535
    \/ UiCallMidiUnlearn \/ UiL731 \/ UiL733
    \/ Lookup

InitRebind == InitLearn /\ zctrl["C"] = NewController /\ midi_single_active_channel = FALSE

SpecRebind == InitRebind /\ [][NextRebind]_vars

\* ------------------------------------------------------ the value operations

\* The engine with three controllers constructed and nothing learned.
BaseState ==
    [zctrl |-> [c \in Ctrls |-> NewController], learned_cc |-> EmptyGrid,
     learned_zctrls |-> <<>>]

\* Controller A as zynthian_controller(engine, symbol, name, options) makes it
WithOptions(z, options) == [BaseState EXCEPT !.zctrl["A"] = set_options(z, options).z]

\* Controller A as the engine's controller table makes it (zynthian_engine.py,
\* lines 604-614): constructed without options, then setup_controller.
WithSetup(chan, cc, val, maxval) == setup_controller(BaseState, "A", chan, cc, val, maxval).S

\* The controller the value operations are called on: a linear integer one on
\* CC 1 with range 0..127, a linear float one sent by OSC, an on / off toggle on
\* CC 0, a float toggle, a selector with explicit ticks, a selector with
\* generated ticks, a selector with three labels over the integer range 0..1, a
\* logarithmic one, and a linear one without an engine.
Constructed ==
    { WithSetup(0, Num(1), Num(0), [k |-> "int", v |-> Whole(127)]),
      WithOptions(NewController, [value_min |-> 0, value_max |-> Whole(1),
                                  is_integer |-> FALSE, nudge_factor |-> Scale \div 4,
                                  osc_path |-> "/a"]),
      WithSetup(0, Num(0), Str("off"), [k |-> "str", labels |-> <<"off", "on">>]),
      WithOptions(NewController, [is_toggle |-> TRUE, is_integer |-> FALSE,
                                  value_min |-> 0, value_max |-> Whole(1)]),
      WithOptions(NewController, [labels |-> <<"Off", "Low", "High">>,
                                  ticks |-> <<0, Whole(64), Whole(127)>>,
                                  midi_chan |-> 0, midi_cc |-> 1]),
      WithOptions(NewController, [labels |-> <<"a", "b", "c">>]),
      WithOptions(NewController, [labels |-> <<"a", "b", "c">>, value_min |-> 0,
                                  value_max |-> Whole(1)]),
      WithOptions(NewController, [is_logarithmic |-> TRUE, value_min |-> Whole(1),
                                  value_max |-> Whole(10)]),
      WithOptions([NewController EXCEPT !.engine = FALSE], [value_max |-> Whole(10)]) }

\* What set_value and restore_state are called with: numbers below, inside and
\* above the ranges, whole and fractional, and label strings, one of them a
\* label of no controller.
RawValues ==
    { Num(Whole(-5)), Num(0), Num(Scale \div 2), Num((17 * Scale) \div 10),
      Num(Whole(64)), Num(Whole(127)), Num(Whole(200)),
      Str("Low"), Str("on"), Str("bogus") }

\* The steps nudge is called with (the encoder's dval, and dval * 10).
Steps == {-1, 1, 10}

\* The 7-bit values of inbound CC messages.
CCValues == {0, 64, 127}

\* The states restore_state is given: a value, with or without a learn binding.
States ==
    { [value |-> Num(Whole(-5))], [value |-> Str("bogus")],
      [value |-> Num(Whole(64)), midi_learn_chan |-> 0, midi_learn_cc |-> 1] }

CalledWith(name, c, val, send) ==
    [name |-> name, zctrl |-> c, again |-> FALSE, bound |-> FALSE, val |-> val, send |-> send]

InitValue ==
    /\ \E S \in Constructed :
          /\ zctrl = S.zctrl
          /\ learned_cc = S.learned_cc
          /\ learned_zctrls = S.learned_zctrls
    /\ midi_single_active_channel = FALSE
    /\ op = NoOp
    /\ ret = "None"
    /\ ui = UiIdle
    /\ observed = NoLookup
    /\ sent = <<>>
    /\ thr = ThrIdle
    /\ ignore_not_on_gui = FALSE
    /\ _ctrl_screens = <<>>
    /\ midi_learn_mode = FALSE
    /\ midi_learn_zctrl = Nil

\* A controller operation run as one step.
ValueCommit(c, r) ==
    /\ zctrl' = [zctrl EXCEPT ![c] = r.z]
    /\ ret' = r.ret
    /\ sent' = r.sent
    /\ UNCHANGED <<learned_cc, learned_zctrls, midi_single_active_channel, midi_learn_mode, midi_learn_zctrl, ignore_not_on_gui, _ctrl_screens, ui, observed, thr>>

\* c.set_value(val, send)
SetValue(CS) ==
    \E c \in CS, val \in RawValues, send \in BOOLEAN, io \in IOs :
        /\ ValueCommit(c, set_value(zctrl[c], val, send, io))
        /\ op' = CalledWith("set_value", c, val, send)

\* c.nudge(val, send)
Nudge(CS) ==
    \E c \in CS, val \in Steps, send \in BOOLEAN, io \in IOs :
        /\ ValueCommit(c, nudge(zctrl[c], val, send, io))
        /\ op' = CalledWith("nudge", c, Num(val), send)

\* c.midi_control_change(val), as engine.midi_zctrl_change calls it
MidiControlChange(CS) ==
    \E c \in CS, val \in CCValues, io \in IOs :
        /\ ValueCommit(c, midi_control_change(zctrl[c], val, io))
        /\ op' = CalledWith("midi_control_change", c, Num(val), TRUE)

\* engine.midi_control_change(chan, ccnum, val), the control thread's dispatch
EngineMidiControlChange ==
    \E chan \in Chans, ccnum \in CCs, val \in CCValues, io \in IOs :
        LET r == engine_midi_control_change(LearnState, chan, ccnum, val, io)
        IN  /\ zctrl' = r.S.zctrl
            /\ learned_cc' = r.S.learned_cc
            /\ learned_zctrls' = r.S.learned_zctrls
            /\ ret' = r.ret
            /\ sent' = r.sent
            /\ op' = CalledWith("engine.midi_control_change", learned_cc[chan][ccnum],
                                Num(val), TRUE)
            /\ UNCHANGED <<midi_single_active_channel, midi_learn_mode, midi_learn_zctrl, ignore_not_on_gui, _ctrl_screens, ui, observed, thr>>

\* c.restore_state(state)
RestoreState(CS) ==
    \E c \in CS, state \in States, io \in IOs :
        LET r == restore_state(LearnState, c, state, io)
        IN  /\ zctrl' = r.S.zctrl
            /\ learned_cc' = r.S.learned_cc
            /\ learned_zctrls' = r.S.learned_zctrls
            /\ ret' = r.ret
            /\ sent' = r.sent
            /\ op' = CalledWith("restore_state", c, state.value, TRUE)
            /\ UNCHANGED <<midi_single_active_channel, midi_learn_mode, midi_learn_zctrl, ignore_not_on_gui, _ctrl_screens, ui, observed, thr>>

\* The user interface has drawn the controller: whoever consumes the change
\* clears is_dirty.
UiRefresh(CS) ==
    \E c \in CS :
        /\ zctrl[c].is_dirty
        /\ zctrl' = [zctrl EXCEPT ![c].is_dirty = FALSE]
        /\ op' = CalledWith("refresh", c, PyNone, FALSE)
        /\ ret' = "None"
        /\ sent' = <<>>
        /\ UNCHANGED <<learned_cc, learned_zctrls, midi_single_active_channel, midi_learn_mode, midi_learn_zctrl, ignore_not_on_gui, _ctrl_screens, ui,
                       observed, thr>>

\* The controllers the value operations are called on.
ValueCtrls == {"A"}

NextValue ==
    \/ SetValue(ValueCtrls)
    \/ Nudge(ValueCtrls)
    \/ MidiControlChange(ValueCtrls)
    \/ EngineMidiControlChange
    \/ RestoreState(ValueCtrls)
    \/ UiRefresh(ValueCtrls)

SpecValue == InitValue /\ [][NextValue]_vars

\* ------------------------------------------------- set_value line by line

\* Two threads are inside set_value(val) of one controller, each given the same
\* target, one that _set_value turns into a value other than the stored one.
\* No lock is taken, so the threads interleave between any two statements.
RaceCtrl == "A"

InitRace ==
    /\ \E S \in Constructed :
          /\ zctrl = S.zctrl
          /\ learned_cc = S.learned_cc
          /\ learned_zctrls = S.learned_zctrls
    /\ \E val \in RawValues :
          /\ _set_value(zctrl[RaceCtrl], val).exc = Nil
          /\ _set_value(zctrl[RaceCtrl], val).z.value # zctrl[RaceCtrl].value
          /\ thr = [t \in Threads |-> [ThrIdle[t] EXCEPT !.pc = "L344", !.val = val]]
    /\ midi_single_active_channel = FALSE
    /\ ignore_not_on_gui = FALSE
    /\ _ctrl_screens = <<>>
    /\ midi_learn_mode = FALSE
    /\ midi_learn_zctrl = Nil
    /\ op = NoOp
    /\ ret = "None"
    /\ ui = UiIdle
    /\ observed = NoLookup
    /\ sent = <<>>

RaceFrame ==
    UNCHANGED <<learned_cc, learned_zctrls, midi_single_active_channel, midi_learn_mode, midi_learn_zctrl, ignore_not_on_gui, _ctrl_screens, op, ret, ui,
                observed, sent>>

\* line 344: old_val = self.value
RaceL344 ==
    \E t \in Threads :
        /\ thr[t].pc = "L344"
        /\ thr' = [thr EXCEPT ![t].old_val = zctrl[RaceCtrl].value, ![t].pc = "L345"]
        /\ UNCHANGED zctrl /\ RaceFrame

\* line 345: self._set_value(val)
RaceL345 ==
    \E t \in Threads :
        /\ thr[t].pc = "L345"
        /\ zctrl' = [zctrl EXCEPT ![RaceCtrl] = _set_value(@, thr[t].val).z]
        /\ thr' = [thr EXCEPT ![t].pc = "L346"]
        /\ RaceFrame

\* lines 346-347: if old_val == self.value: return
RaceL346 ==
    \E t \in Threads :
        /\ thr[t].pc = "L346"
        /\ thr' = IF thr[t].old_val = zctrl[RaceCtrl].value
                  THEN [thr EXCEPT ![t].pc = "done"]
                  ELSE [thr EXCEPT ![t].pc = "L349", ![t].changed = TRUE]
        /\ UNCHANGED zctrl /\ RaceFrame

\* lines 349-381: the value is handed to the sinks and the feedback is sent
RaceL349 ==
    \E t \in Threads, io \in IOs :
        /\ thr[t].pc = "L349"
        /\ LET z == zctrl[RaceCtrl]
               mval == get_ctrl_midi_val(z)
           IN  thr' = [thr EXCEPT
                         ![t].sent = IF z.engine
                                     THEN deliver(z, thr[t].send, io, mval) \o feedback(z, io, mval)
                                     ELSE <<>>,
                         ![t].pc = "L383"]
        /\ UNCHANGED zctrl /\ RaceFrame

\* line 383: self.is_dirty = True
RaceL383 ==
    \E t \in Threads :
        /\ thr[t].pc = "L383"
        /\ zctrl' = [zctrl EXCEPT ![RaceCtrl].is_dirty = TRUE]
        /\ thr' = [thr EXCEPT ![t].pc = "done"]
        /\ RaceFrame

NextRace == RaceL344 \/ RaceL345 \/ RaceL346 \/ RaceL349 \/ RaceL383

SpecRace == InitRace /\ [][NextRace]_vars

\* ------------------------------------------------------------ learn table

\* The cells of a grid that reference controller c.
RefCells(grid, c) == {cell \in Chans \X CCs : grid[cell[1]][cell[2]] = c}

\* Controller c is bound to (chan, cc): the cell references it and its learn
\* fields name the cell.
BoundTo(zs, grid, c, chan, cc) ==
    /\ grid[chan][cc] = c
    /\ zs[c].midi_learn_chan = chan
    /\ zs[c].midi_learn_cc = cc

InDict(d, c) == \E i \in 1..Len(d) : d[i].zctrl = c

\* C1 (Exclusivity): after any sequence of set_midi_learn calls no controller
\* is referenced by more than one cell of learned_cc, and every controller with
\* a learn binding is referenced by exactly the cell its learn fields name.
C1_Exclusivity ==
    \A c \in Ctrls :
        /\ Cardinality(RefCells(learned_cc, c)) <= 1
        /\ HasLearn(zctrl[c]) =>
               RefCells(learned_cc, c) = {<<zctrl[c].midi_learn_chan, zctrl[c].midi_learn_cc>>}

\* C2 (Eviction on bind): when A is bound to (chan, cc) and set_midi_learn(B,
\* chan, cc) is called for another controller B, afterwards the cell references
\* B, B's learn fields are (chan, cc), A's learn fields are None and no cell
\* references A.
C2_EvictionOnBind ==
    [][ \A a \in Ctrls, b \in Ctrls, chan \in Chans, cc \in CCs :
          ( /\ a # b
            /\ BoundTo(zctrl, learned_cc, a, chan, cc)
            /\ op'.name = "set_midi_learn" /\ op'.zctrl = b
            /\ zctrl'[b].midi_learn_chan = chan /\ zctrl'[b].midi_learn_cc = cc )
          => ( /\ BoundTo(zctrl', learned_cc', b, chan, cc)
               /\ zctrl'[a].midi_learn_chan = None
               /\ zctrl'[a].midi_learn_cc = None
               /\ RefCells(learned_cc', a) = {} ) ]_vars

\* C3 (Unbind postcondition): when controller c has a learn binding (chan, cc),
\* after c.midi_unlearn() the cell (chan, cc) is empty, no cell references c, c
\* is not in learned_zctrls and c's learn fields are None.
C3_UnbindPostcondition ==
    [][ \A c \in Ctrls :
          ( /\ HasLearn(zctrl[c])
            /\ op'.name = "midi_unlearn" /\ op'.zctrl = c )
          => ( /\ learned_cc'[zctrl[c].midi_learn_chan][zctrl[c].midi_learn_cc] = Nil
               /\ RefCells(learned_cc', c) = {}
               /\ ~InDict(learned_zctrls', c)
               /\ zctrl'[c].midi_learn_chan = None
               /\ zctrl'[c].midi_learn_cc = None ) ]_vars

\* C4 (Idempotent unbind): a second midi_unlearn on the same controller, right
\* after the first, changes neither the grid, nor learned_zctrls, nor any
\* controller's learn fields, and on a controller that has no binding it
\* reports success.
C4_IdempotentUnbind ==
    [][ (op'.name = "midi_unlearn" /\ op'.again)
          => ( /\ zctrl' = zctrl
               /\ learned_cc' = learned_cc
               /\ learned_zctrls' = learned_zctrls
               /\ ~HasLearn(zctrl[op'.zctrl]) => ret' = "True" ) ]_vars

\* A second midi_unlearn has run on a controller that the first one unbound.
C4_Witness ==
    /\ op.name = "midi_unlearn" /\ op.again /\ op.bound
    /\ ~HasLearn(zctrl[op.zctrl])
    /\ ret = "True"

\* C5 (Atomic rebind): in every state a lookup of the control thread can observe
\* while the UI thread is inside set_midi_learn, midi_unlearn or
\* refresh_midi_learn, a cell references controller c if and only if c's learn
\* fields name that cell, and no controller is referenced by two cells.
C5_AtomicRebind ==
    \A c \in Ctrls :
        /\ \A chan \in Chans, cc \in CCs :
               learned_cc[chan][cc] = c <=>
                   (zctrl[c].midi_learn_chan = chan /\ zctrl[c].midi_learn_cc = cc)
        /\ Cardinality(RefCells(learned_cc, c)) <= 1

\* ------------------------------------------------------------- the values

\* _configure has run to its end on the controller.
Configured(z) == z.value_range # None

\* C6 (No duplicate delivery): when two threads have called set_value on the
\* same controller with the same target, a target that differs from the stored
\* value, exactly one of the two calls has taken the changed path; the other
\* saw the old value equal to the new one.
C6_NoDuplicateDelivery ==
    (\A t \in Threads : thr[t].pc = "done")
        => Cardinality({t \in Threads : thr[t].changed}) = 1

\* C7 (Clamping): the stored value of a configured controller is a number in
\* [value_min, value_max] after every operation; on the integer controller
\* with range 0..127, set_value(200) stores 127 and set_value(-5) stores 0.
C7_Clamping ==
    \A c \in Ctrls :
        Configured(zctrl[c]) =>
            /\ zctrl[c].value.k = "num"
            /\ zctrl[c].value_min <= zctrl[c].value.v
            /\ zctrl[c].value.v <= zctrl[c].value_max
            /\ ( /\ op.name = "set_value" /\ op.zctrl = c
                 /\ ~zctrl[c].is_toggle /\ zctrl[c].is_integer /\ zctrl[c].ticks = <<>>
                 /\ zctrl[c].value_min = 0 /\ zctrl[c].value_max = Whole(127) )
               => /\ op.val = Num(Whole(200)) => zctrl[c].value = Num(Whole(127))
                  /\ op.val = Num(Whole(-5)) => zctrl[c].value = Num(0)

\* C8 (Toggle invariant): the stored value of a configured toggle is exactly
\* value_min or exactly value_max after every operation, and a set_value with a
\* number other than the two stores value_min when the number is below
\* value_mid and value_max otherwise.
C8_ToggleInvariant ==
    \A c \in Ctrls :
        (Configured(zctrl[c]) /\ zctrl[c].is_toggle) =>
            /\ zctrl[c].value \in {Num(zctrl[c].value_min), Num(zctrl[c].value_max)}
            /\ ( /\ op.name = "set_value" /\ op.zctrl = c /\ op.val.k = "num"
                 /\ op.val.v \notin {zctrl[c].value_min, zctrl[c].value_max} )
               => zctrl[c].value = IF op.val.v < zctrl[c].value_mid
                                   THEN Num(zctrl[c].value_min)
                                   ELSE Num(zctrl[c].value_max)

\* C9 as stated (set_value result): set_value returns true exactly when the
\* stored value after the call differs from the one before, and false when it
\* is unchanged.
C9_ReturnsChanged ==
    [][ \A c \in Ctrls :
          (op'.name = "set_value" /\ op'.zctrl = c)
          => ret' = IF zctrl'[c].value # zctrl[c].value THEN "True" ELSE "False" ]_vars

\* C9 as the code has it: set_value returns None whether or not the value
\* changed; what tells a change is the changed path, taken exactly when the
\* stored value after the call differs from the one before: is_dirty is set
\* and, on a controller with an engine called with send, the value is handed to
\* a sink.
C9_ChangedPath ==
    [][ \A c \in Ctrls :
          (op'.name = "set_value" /\ op'.zctrl = c)
          => /\ ret' = "None"
             /\ zctrl'[c].value # zctrl[c].value => zctrl'[c].is_dirty
             /\ (zctrl[c].engine /\ op'.send)
                => (sent' # <<>> <=> zctrl'[c].value # zctrl[c].value) ]_vars

\* A set_value that changed the value: it returned None, is_dirty is set and
\* the new value went to a sink.
C9_Witness ==
    /\ op.name = "set_value" /\ op.send
    /\ ret = "None"
    /\ sent # <<>>
    /\ zctrl["A"].is_dirty
    /\ zctrl["A"].value = _set_value(zctrl["A"], op.val).z.value

\* C10 (No-op on unchanged value): a set_value that leaves the stored value as
\* it was hands nothing to the engine callback, OSC or MIDI CC sink, sends no
\* feedback and leaves is_dirty as it was.
C10_NoOpOnUnchanged ==
    [][ \A c \in Ctrls :
          (op'.name = "set_value" /\ op'.zctrl = c /\ zctrl'[c].value = zctrl[c].value)
          => (sent' = <<>> /\ zctrl'[c].is_dirty = zctrl[c].is_dirty) ]_vars

\* A set_value with send, on a controller with an engine whose is_dirty had been
\* cleared, that left the value as it was: is_dirty is still clear.
C10_Witness ==
    /\ op.name = "set_value" /\ op.send
    /\ zctrl["A"].engine
    /\ ~zctrl["A"].is_dirty
    /\ sent = <<>>

\* ------------------------------------------------------------ the delivery

\* The places in sent of the messages handed to one sink
SentTo(sink) == {i \in 1..Len(sent) : sent[i].sink = sink}

\* The engine's send_controller_value was called and raised
EngineFailed == \E i \in SentTo("engine") : ~sent[i].ok

\* The places in sent of the messages a delivery sink took
Delivered == {i \in 1..Len(sent) : sent[i].sink \in {"engine", "osc", "midi"} /\ sent[i].ok}

\* C11 (Delivery fallback order): after a changed set_value with send, the
\* engine's send_controller_value was tried first; the value went to OSC exactly
\* when the engine's call failed and osc_path is set, and to MIDI CC exactly when
\* the engine's call failed, osc_path is not set and midi_cc is a CC number, 0
\* included; at most one sink took the value.
C11_FallbackOrder ==
    \A c \in Ctrls :
        (op.name = "set_value" /\ op.zctrl = c /\ op.send /\ sent # <<>>)
        => /\ sent[1].sink = "engine"
           /\ (SentTo("osc") # {}) <=> (EngineFailed /\ zctrl[c].osc_path # Nil)
           /\ (SentTo("midi") # {})
                <=> (EngineFailed /\ zctrl[c].osc_path = Nil /\ zctrl[c].midi_cc # None)
           /\ \A i \in SentTo("midi") :
                 sent[i].chan = zctrl[c].midi_chan /\ sent[i].cc = zctrl[c].midi_cc
           /\ Cardinality(Delivered) <= 1

\* C12 (Delivery failure is contained): a changed set_value during which every
\* sink that was tried failed (the engine's call, the OSC or MIDI CC send, the
\* feedback send) raises nothing, has stored the normalized new value and has
\* set is_dirty.
C12_FailureContained ==
    [][ \A c \in Ctrls :
          ( /\ op'.name = "set_value" /\ op'.zctrl = c
            /\ sent' # <<>>
            /\ \A i \in 1..Len(sent') : ~sent'[i].ok )
          => /\ ret' = "None"
             /\ zctrl'[c].value = _set_value(zctrl[c], op'.val).z.value
             /\ zctrl'[c].value # zctrl[c].value
             /\ zctrl'[c].is_dirty ]_vars

\* A set_value whose engine call, MIDI CC send and feedback send all failed:
\* nothing was raised, the value is the one given and is_dirty is set.
C12_Witness ==
    /\ op.name = "set_value" /\ op.val = Num(Whole(64))
    /\ Len(sent) = 3
    /\ \A i \in 1..Len(sent) : ~sent[i].ok
    /\ {sent[i].sink : i \in 1..Len(sent)} = {"engine", "midi", "feedback"}
    /\ ret = "None"
    /\ zctrl["A"].value = Num(Whole(64))
    /\ zctrl["A"].is_dirty

\* The feedback message to (chan, cc) is the last of the messages sent, the only
\* feedback among them, and carries get_ctrl_midi_val() of controller z.
FeedbackLast(msgs, z, chan, cc) ==
    /\ msgs # <<>>
    /\ msgs[Len(msgs)].sink = "feedback"
    /\ msgs[Len(msgs)].chan = chan
    /\ msgs[Len(msgs)].cc = cc
    /\ msgs[Len(msgs)].val = Num(get_ctrl_midi_val(z))
    /\ \A i \in 1..(Len(msgs) - 1) : msgs[i].sink # "feedback"

\* C13 (Feedback after change): a changed set_value on a controller with an
\* engine sends, after the delivery attempt, one MIDI CC feedback message that
\* carries get_ctrl_midi_val(): to (midi_learn_chan, midi_learn_cc) when the
\* controller has a learn binding, whatever its CC number, and otherwise to
\* (midi_chan, midi_cc) when midi_cc is a CC number.
C13_FeedbackAfterChange ==
    [][ \A c \in Ctrls :
          ( /\ op'.name = "set_value" /\ op'.zctrl = c
            /\ zctrl[c].engine
            /\ zctrl'[c].value # zctrl[c].value )
          => IF HasLearn(zctrl'[c])
             THEN FeedbackLast(sent', zctrl'[c], zctrl'[c].midi_learn_chan,
                               zctrl'[c].midi_learn_cc)
             ELSE IF zctrl'[c].midi_cc # None
             THEN FeedbackLast(sent', zctrl'[c], zctrl'[c].midi_chan, zctrl'[c].midi_cc)
             ELSE TRUE ]_vars

\* C14 (No re-echo of inbound CC): after an inbound CC dispatched by
\* engine.midi_control_change to the controller of the cell, no MIDI CC feedback
\* message has been sent to that controller's learn (chan, cc).
C14_NoReEcho ==
    \A c \in Ctrls :
        (op.name = "engine.midi_control_change" /\ op.zctrl = c)
        => \A i \in SentTo("feedback") :
              ~( /\ sent[i].chan = zctrl[c].midi_learn_chan
                 /\ sent[i].cc = zctrl[c].midi_learn_cc )

\* ------------------------------------------------------ the inbound dispatch

\* The engine's controller table with A on channel 0, CC 1 and B on channel 1,
\* CC 1, both learned by setup_controller, and C configured without routing.
DispatchState ==
    [ setup_controller(
          setup_controller(BaseState, "A", 0, Num(1), Num(0),
                           [k |-> "int", v |-> Whole(127)]).S,
          "B", 1, Num(1), Num(0), [k |-> "int", v |-> Whole(127)]).S
      EXCEPT !.zctrl["C"] = set_options(@, [value_max |-> Whole(127)]).z ]

InitDispatch ==
    /\ zctrl = DispatchState.zctrl
    /\ learned_cc = DispatchState.learned_cc
    /\ learned_zctrls = DispatchState.learned_zctrls
    /\ midi_single_active_channel = FALSE
    /\ op = NoOp
    /\ ret = "None"
    /\ ui = UiIdle
    /\ observed = NoLookup
    /\ sent = <<>>
    /\ thr = ThrIdle
    /\ ignore_not_on_gui = FALSE
    /\ _ctrl_screens = <<>>
    /\ midi_learn_mode = FALSE
    /\ midi_learn_zctrl = Nil

\* The controller the user learns and unlearns while CC messages come in.
DispatchCtrls == {"C"}

NextDispatch ==
    \/ EngineMidiControlChange
    \/ SetMidiLearn(DispatchCtrls)
    \/ MidiUnlearn(DispatchCtrls)

SpecDispatch == InitDispatch /\ [][NextDispatch]_vars

\* C15 (Inbound dispatch frame): engine.midi_control_change(chan, cc, raw7)
\* gives the controller of the cell learned_cc[chan][cc] what its
\* midi_control_change(raw7) makes of it and leaves every other controller as
\* it was; on an empty cell it changes no controller, sends nothing and raises
\* nothing; the grid, learned_zctrls and every learn binding stay as they were.
C15_DispatchFrame ==
    [][ op'.name = "engine.midi_control_change"
        => /\ learned_cc' = learned_cc
           /\ learned_zctrls' = learned_zctrls
           /\ \A c \in Ctrls :
                 /\ zctrl'[c].midi_learn_chan = zctrl[c].midi_learn_chan
                 /\ zctrl'[c].midi_learn_cc = zctrl[c].midi_learn_cc
                 /\ c # op'.zctrl => zctrl'[c] = zctrl[c]
                 /\ c = op'.zctrl
                    => \E io \in IOs :
                          zctrl'[c] = midi_control_change(zctrl[c], op'.val.v, io).z
           /\ op'.zctrl = Nil => (zctrl' = zctrl /\ sent' = <<>> /\ ret' = "None") ]_vars

\* An inbound CC 64 on (1, 1) has just given B the value 64 while A, on (0, 1),
\* keeps the 127 an earlier CC gave it, and both are still in their cells.
C15_Witness ==
    /\ op.name = "engine.midi_control_change" /\ op.zctrl = "B"
    /\ op.val = Num(64)
    /\ zctrl["B"].value = Num(Whole(64))
    /\ zctrl["A"].value = Num(Whole(127))
    /\ learned_cc[0][1] = "A"
    /\ learned_cc[1][1] = "B"

\* --------------------------------------------------------- the configuration

\* The options set_options is called with: labels alone (ticks are generated
\* over [0, n-1]), labels over an integer range shorter than their number,
\* labels over a float range, labels with ascending and with descending ticks,
\* and a numeric range.
OptionSets ==
    { [labels |-> <<"a", "b", "c">>],
      [labels |-> <<"a", "b", "c">>, value_min |-> 0, value_max |-> Whole(1)],
      [labels |-> <<"a", "b", "c">>, is_integer |-> FALSE, value_min |-> 0,
       value_max |-> Whole(1)],
      [labels |-> <<"Off", "Low", "High">>, ticks |-> <<0, Whole(64), Whole(127)>>],
      [labels |-> <<"a", "b", "c">>, ticks |-> <<Whole(127), Whole(64), 0>>],
      [value_min |-> Whole(10), value_max |-> Whole(20)] }

\* The arguments setup_controller is called with: a CC number with an integer
\* maximum, and an OSC path with labels and their ticks.
SetupArgs ==
    { [chan |-> 0, cc |-> Num(1), val |-> Num(0), maxval |-> [k |-> "int", v |-> Whole(127)]],
      [chan |-> 1, cc |-> Str("/a"), val |-> Num(Whole(64)),
       maxval |-> [k |-> "list2", labels |-> <<"Off", "Low", "High">>,
                   ticks |-> <<0, Whole(64), Whole(127)>>]] }

\* zynthian_controller(engine, symbol): the controller before any configuration
InitConfig ==
    /\ zctrl = BaseState.zctrl
    /\ learned_cc = BaseState.learned_cc
    /\ learned_zctrls = BaseState.learned_zctrls
    /\ midi_single_active_channel = FALSE
    /\ op = NoOp
    /\ ret = "None"
    /\ ui = UiIdle
    /\ observed = NoLookup
    /\ sent = <<>>
    /\ thr = ThrIdle
    /\ ignore_not_on_gui = FALSE
    /\ _ctrl_screens = <<>>
    /\ midi_learn_mode = FALSE
    /\ midi_learn_zctrl = Nil

\* c.set_options(options)
SetOptions(CS) ==
    \E c \in CS, options \in OptionSets :
        /\ zctrl' = [zctrl EXCEPT ![c] = set_options(zctrl[c], options).z]
        /\ ret' = set_options(zctrl[c], options).ret
        /\ op' = CalledWith("set_options", c, [k |-> "options", options |-> options], FALSE)
        /\ sent' = <<>>
        /\ UNCHANGED <<learned_cc, learned_zctrls, midi_single_active_channel, midi_learn_mode, midi_learn_zctrl, ignore_not_on_gui, _ctrl_screens, ui,
                       observed, thr>>

\* c.setup_controller(chan, cc, val, maxval)
SetupController(CS) ==
    \E c \in CS, a \in SetupArgs :
        /\ Commit(setup_controller(LearnState, c, a.chan, a.cc, a.val, a.maxval))
        /\ op' = CalledWith("setup_controller", c, [k |-> "args", args |-> a], FALSE)
        /\ UNCHANGED <<midi_single_active_channel, midi_learn_mode, midi_learn_zctrl, ignore_not_on_gui, _ctrl_screens>>

\* The controller that is configured and configured again.
ConfigCtrls == {"A"}

NextConfig ==
    \/ SetOptions(ConfigCtrls)
    \/ SetupController(ConfigCtrls)

SpecConfig == InitConfig /\ [][NextConfig]_vars

\* The last call configured the controller to its end.
ConfiguredBy(c) ==
    /\ op.name \in {"set_options", "setup_controller"} /\ op.zctrl = c
    /\ ret \notin {"TypeError", "IndexError", "ValueError"}

\* A controller with labels and ticks that is not an on / off toggle
Discrete(z) == z.labels # <<>> /\ z.ticks # <<>> /\ ~z.is_toggle

\* C16 (Tick bijection): on a Discrete controller that a configuration has
\* produced, with the ticks given or generated from the labels, every tick
\* comes back from its label:
\* get_label2value(get_value2label(ticks[i])) = ticks[i] for every i.
C16_TickBijection ==
    \A c \in Ctrls :
        (ConfiguredBy(c) /\ Discrete(zctrl[c]))
        => \A i \in 1..Len(zctrl[c].ticks) :
              /\ get_value2label(zctrl[c], Num(zctrl[c].ticks[i])).k = "str"
              /\ get_label2value(zctrl[c],
                                 get_value2label(zctrl[c], Num(zctrl[c].ticks[i])).s)
                 = Num(zctrl[c].ticks[i])

\* ------------------------------------------------------------- the nudge

\* The places of value v in the ticks, numbered from 0
TickIndexes(z) == {i \in 0..(Len(z.ticks) - 1) : z.value = Num(z.ticks[i + 1])}

\* C17 (Discrete nudge): on a configured Discrete controller whose value is the
\* tick of index i, nudge(steps) stores ticks[j], j being i + steps kept inside
\* [0, len(ticks) - 1]; with the labels Off / Low / High on the ticks
\* [0, 64, 127], nudge(+1) from 0 stores 64, whose label is Low.
C17_DiscreteNudge ==
    [][ \A c \in Ctrls :
          ( /\ op'.name = "nudge" /\ op'.zctrl = c
            /\ Configured(zctrl[c]) /\ Discrete(zctrl[c])
            /\ TickIndexes(zctrl[c]) # {} )
          => /\ \E i \in TickIndexes(zctrl[c]) :
                   zctrl'[c].value
                     = Num(zctrl[c].ticks[nudge_index(i, op'.val.v, Len(zctrl[c].ticks)) + 1])
             /\ ( /\ zctrl[c].ticks = <<0, Whole(64), Whole(127)>>
                  /\ zctrl[c].labels = <<"Off", "Low", "High">>
                  /\ zctrl[c].value = Num(0) /\ op'.val = Num(1) )
                => /\ zctrl'[c].value = Num(Whole(64))
                   /\ get_value2label(zctrl'[c], PyNone) = Str("Low") ]_vars

\* ------------------------------------------------------- the MIDI round trip

\* A configured controller with a linear scale: no ticks, not a toggle, not
\* logarithmic, its value a number within the bounds.
Linear(z) ==
    /\ Configured(z) /\ z.ticks = <<>> /\ ~z.is_toggle /\ ~z.is_logarithmic
    /\ z.value.k = "num" /\ z.value_min <= z.value.v /\ z.value.v <= z.value_max

\* What midi_control_change(get_ctrl_midi_val()) stores on controller z
RoundTrip(z) ==
    midi_control_change(z, get_ctrl_midi_val(z),
                        [engine |-> TRUE, osc |-> TRUE, midi |-> TRUE, feedback |-> TRUE]).z.value

\* C18 (Linear round-trip): on a Linear controller, integer or not, with the
\* value v, midi_control_change(get_ctrl_midi_val()) stores a number whose
\* distance from v is at most value_range / 127.
C18_LinearRoundTrip ==
    \A c \in Ctrls :
        Linear(zctrl[c])
        => /\ RoundTrip(zctrl[c]).k = "num"
           /\ 127 * Abs(RoundTrip(zctrl[c]).v - zctrl[c].value.v) <= zctrl[c].value_range

\* ------------------------------------------------------ the controller screens

\* The most controllers of one zctrl_dict, and the number of pages in
\* _ctrl_screens from which generate_ctrl_screens is called no more.
MaxItems == 5
MaxScreens == 1

\* Line 656 of generate_ctrl_screens with every controller taken as visible
screen_visible_always(zc, ignore) == TRUE

\* Line 656 of generate_ctrl_screens: the controller goes on a screen
screen_visible(zc, ignore) == ~(~ignore /\ zc.not_on_gui)

\* Lines 636-643 of generate_ctrl_screens: the group symbols in the order they
\* are first seen, items being zctrl_dict.items()
RECURSIVE group_keys(_, _, _)
group_keys(items, i, keys) ==
    IF i > Len(items) THEN keys
    ELSE group_keys(items, i + 1,
                    IF \E j \in 1..Len(keys) : keys[j] = items[i].group_symbol
                    THEN keys
                    ELSE Append(keys, items[i].group_symbol))

\* zctrl_group[gsymbol][1]: the controllers of one group, in the order of items
group_members(items, g) == SelectSeq(items, LAMBDA zc : zc.group_symbol = g)

\* zctrl_group[gsymbol][0]: the group_name of the first controller seen, or
\* else the group symbol, and "Ctrls" for the group None (lines 639-645)
group_label(members, g) ==
    IF g = Nil THEN "Ctrls"
    ELSE IF members[1].group_name # Nil /\ members[1].group_name # ""
    THEN members[1].group_name
    ELSE g

\* zynthian_engine.get_ctrl_screen_name(gname, i)
get_ctrl_screen_name(gname, i) == IF i > 0 THEN gname \o "#" \o ToString(i) ELSE gname

\* Lines 654-670 of generate_ctrl_screens from member i of one group on:
\* ctrl_set is the page being filled, c its number, screens what
\* self._ctrl_screens holds
RECURSIVE screens_scan(_, _, _, _, _, _, _)
screens_scan(members, i, ctrl_set, c, gname, ignore, screens) ==
    IF i > Len(members)
    THEN IF Len(ctrl_set) >= 1
         THEN Append(screens, <<get_ctrl_screen_name(gname, c), ctrl_set>>)
         ELSE screens
    ELSE IF ~screen_visible(members[i], ignore)
    THEN screens_scan(members, i + 1, ctrl_set, c, gname, ignore, screens)
    ELSE IF Len(ctrl_set) + 1 >= 4
    THEN screens_scan(members, i + 1, <<>>, c + 1, gname, ignore,
                      Append(screens, <<get_ctrl_screen_name(gname, c),
                                        Append(ctrl_set, members[i].symbol)>>))
    ELSE screens_scan(members, i + 1, Append(ctrl_set, members[i].symbol), c, gname,
                      ignore, screens)

\* Lines 647-670 of generate_ctrl_screens for one group
group_screens(members, g, ignore, screens) ==
    screens_scan(members, 1, <<>>, IF Len(members) <= 4 THEN 0 ELSE 1,
                 group_label(members, g), ignore, screens)

\* Lines 647-670 of generate_ctrl_screens from group k on
RECURSIVE screens_groups(_, _, _, _, _)
screens_groups(items, keys, k, ignore, screens) ==
    IF k > Len(keys) THEN screens
    ELSE screens_groups(items, keys, k + 1, ignore,
                        group_screens(group_members(items, keys[k]), keys[k], ignore, screens))

\* A generate_ctrl_screens that appends the full pages only
generate_ctrl_screens_full_pages(screens, items, ignore) ==
    screens \o SelectSeq(SubSeq(screens_groups(items, group_keys(items, 1, <<>>), 1, ignore,
                                               screens),
                                Len(screens) + 1,
                                Len(screens_groups(items, group_keys(items, 1, <<>>), 1, ignore,
                                                   screens))),
                         LAMBDA page : Len(page[2]) = 4)

\* zynthian_engine.generate_ctrl_screens(zctrl_dict): what self._ctrl_screens
\* holds after the call, screens being what it held before
generate_ctrl_screens(screens, items, ignore) ==
    screens_groups(items, group_keys(items, 1, <<>>), 1, ignore, screens)

\* The controller of place i in a zctrl_dict: its symbol, its group (None or
\* "x", with a group_name at the odd places) and its not_on_gui flag
ScreenCtrl(i, g, hidden) ==
    [symbol |-> "s" \o ToString(i),
     group_symbol |-> g,
     group_name |-> IF g # Nil /\ i % 2 = 1 THEN "X" ELSE Nil,
     not_on_gui |-> hidden]

\* The zctrl_dict arguments: up to MaxItems controllers with distinct symbols
ZctrlDicts ==
    UNION { { [i \in 1..n |-> ScreenCtrl(i, g[i], h[i])] :
                g \in [1..n -> {Nil, "x"}], h \in [1..n -> BOOLEAN] } : n \in 0..MaxItems }

\* zynthian_engine.__init__ (line 70) and the class attribute of line 153; an
\* engine that shows every controller sets ignore_not_on_gui in its constructor
InitScreens ==
    /\ zctrl = BaseState.zctrl
    /\ learned_cc = BaseState.learned_cc
    /\ learned_zctrls = BaseState.learned_zctrls
    /\ midi_single_active_channel = FALSE
    /\ op = NoOp
    /\ ret = "None"
    /\ ui = UiIdle
    /\ observed = NoLookup
    /\ sent = <<>>
    /\ thr = ThrIdle
    /\ ignore_not_on_gui \in BOOLEAN
    /\ _ctrl_screens = <<>>
    /\ midi_learn_mode = FALSE
    /\ midi_learn_zctrl = Nil

\* engine.generate_ctrl_screens(zctrl_dict)
GenerateCtrlScreens ==
    \E items \in ZctrlDicts :
        /\ Len(_ctrl_screens) < MaxScreens
        /\ _ctrl_screens' = generate_ctrl_screens(_ctrl_screens, items, ignore_not_on_gui)
        /\ op' = CalledWith("generate_ctrl_screens", Nil, [k |-> "dict", items |-> items], FALSE)
        /\ ret' = "None"
        /\ UNCHANGED <<zctrl, learned_cc, learned_zctrls, midi_single_active_channel,
                       midi_learn_mode, midi_learn_zctrl, ignore_not_on_gui, ui, observed, sent, thr>>

NextScreens == GenerateCtrlScreens

SpecScreens == InitScreens /\ [][NextScreens]_vars

\* The pages the last call appended
Emitted(before, after) == SubSeq(after, Len(before) + 1, Len(after))

\* The controllers of group g that the call puts on screens, in input order
Visible(items, g, ignore) ==
    SelectSeq(items, LAMBDA zc : zc.group_symbol = g /\ (ignore \/ ~zc.not_on_gui))

\* The group of a symbol of the input
GroupOf(items, symbol) ==
    items[CHOOSE i \in 1..Len(items) : items[i].symbol = symbol].group_symbol

\* The pages of group g among the pages
PagesOf(pages, items, g) == SelectSeq(pages, LAMBDA page : GroupOf(items, page[2][1]) = g)

\* C19 (Page size bound): every page a generate_ctrl_screens call appends holds
\* between 1 and 4 controller symbols, and a group with k >= 1 visible
\* controllers gets exactly ceil(k / 4) pages.
C19_PageSize ==
    [][ op'.name = "generate_ctrl_screens"
        => /\ SubSeq(_ctrl_screens', 1, Len(_ctrl_screens)) = _ctrl_screens
           /\ \A p \in 1..Len(Emitted(_ctrl_screens, _ctrl_screens')) :
                 /\ Len(Emitted(_ctrl_screens, _ctrl_screens')[p][2]) >= 1
                 /\ Len(Emitted(_ctrl_screens, _ctrl_screens')[p][2]) <= 4
           /\ \A g \in {Nil, "x"} :
                 Len(Visible(op'.val.items, g, ignore_not_on_gui)) >= 1
                 => Len(PagesOf(Emitted(_ctrl_screens, _ctrl_screens'), op'.val.items, g))
                    = (Len(Visible(op'.val.items, g, ignore_not_on_gui)) + 3) \div 4 ]_vars

\* A group of five visible controllers has been put on two pages, of four and
\* of one.
C19_Witness ==
    /\ op.name = "generate_ctrl_screens"
    /\ Len(Visible(op.val.items, "x", ignore_not_on_gui)) = 5
    /\ Len(_ctrl_screens) = 2
    /\ Len(_ctrl_screens[1][2]) = 4
    /\ Len(_ctrl_screens[2][2]) = 1

\* The symbols of the pages one after the other
RECURSIVE Flatten(_)
Flatten(pages) == IF pages = <<>> THEN <<>> ELSE pages[1][2] \o Flatten(Tail(pages))

\* The symbols of a sequence of controllers
Symbols(zcs) == [i \in 1..Len(zcs) |-> zcs[i].symbol]

\* The place in the input of the first controller of group g
FirstSeen(items, g) == CHOOSE i \in 1..Len(items) :
                          items[i].group_symbol = g /\ \A j \in 1..(i - 1) : items[j].group_symbol # g

\* C20 (Grouping is a partition in order): in the pages one generate_ctrl_screens
\* call appends, every controller that is not flagged not_on_gui (every
\* controller, when ignore_not_on_gui is set) is on exactly one page, once, and
\* the flagged ones are on none; a page holds controllers of one group; the
\* groups come in the order their group_symbol is first seen; and the pages of
\* a group, one after the other, list its controllers in input order.
C20_PartitionInOrder ==
    [][ op'.name = "generate_ctrl_screens"
        => /\ \A i \in 1..Len(op'.val.items) :
                 Cardinality({j \in 1..Len(Flatten(Emitted(_ctrl_screens, _ctrl_screens'))) :
                                Flatten(Emitted(_ctrl_screens, _ctrl_screens'))[j]
                                  = op'.val.items[i].symbol})
                 = IF ignore_not_on_gui \/ ~op'.val.items[i].not_on_gui THEN 1 ELSE 0
           /\ \A p \in 1..Len(Emitted(_ctrl_screens, _ctrl_screens')) :
                 \A j \in 1..Len(Emitted(_ctrl_screens, _ctrl_screens')[p][2]) :
                     GroupOf(op'.val.items, Emitted(_ctrl_screens, _ctrl_screens')[p][2][j])
                       = GroupOf(op'.val.items, Emitted(_ctrl_screens, _ctrl_screens')[p][2][1])
           /\ \A p, q \in 1..Len(Emitted(_ctrl_screens, _ctrl_screens')) :
                 p < q
                 => FirstSeen(op'.val.items,
                              GroupOf(op'.val.items,
                                      Emitted(_ctrl_screens, _ctrl_screens')[p][2][1]))
                    <= FirstSeen(op'.val.items,
                                 GroupOf(op'.val.items,
                                         Emitted(_ctrl_screens, _ctrl_screens')[q][2][1]))
           /\ \A g \in {Nil, "x"} :
                 Flatten(PagesOf(Emitted(_ctrl_screens, _ctrl_screens'), op'.val.items, g))
                   = Symbols(Visible(op'.val.items, g, ignore_not_on_gui)) ]_vars

\* Five controllers of two groups that alternate, the third flagged not_on_gui
\* and ignore_not_on_gui not set: the group seen first has its page first, with
\* s1 and s5, and the other group follows with s2 and s4.
C20_Witness ==
    /\ op.name = "generate_ctrl_screens"
    /\ ~ignore_not_on_gui
    /\ Len(op.val.items) = 5
    /\ \A i \in 1..5 : op.val.items[i].group_symbol = IF i % 2 = 1 THEN "x" ELSE Nil
    /\ \A i \in 1..5 : op.val.items[i].not_on_gui = (i = 3)
    /\ _ctrl_screens = << <<"X", <<"s1", "s5">> >>, <<"Ctrls", <<"s2", "s4">> >> >>

\* The name of a group of the input: "Ctrls" for the controllers without a
\* group key, else the group_name of its first controller or the group symbol
GroupName(items, g) == group_label(group_members(items, g), g)

\* C21 (Page naming): of the pages a generate_ctrl_screens call appends for a
\* group, whatever the size of the group and the number of its hidden
\* controllers, the first is named with the group name alone ("Ctrls" for the
\* controllers without a group key) and the n-th after it group_name#n, n
\* counting from 1.
C21_PageNaming ==
    [][ op'.name = "generate_ctrl_screens"
        => \A g \in {Nil, "x"} :
              \A p \in 1..Len(PagesOf(Emitted(_ctrl_screens, _ctrl_screens'), op'.val.items, g)) :
                  PagesOf(Emitted(_ctrl_screens, _ctrl_screens'), op'.val.items, g)[p][1]
                    = IF p = 1 THEN GroupName(op'.val.items, g)
                      ELSE GroupName(op'.val.items, g) \o "#" \o ToString(p - 1) ]_vars

\* ------------------------------------------------------ keeping and rebuilding

\* The controller registered in learned_zctrls under the path of controller c
Registered(c) == DictGet(learned_zctrls, get_path(zctrl[c]))

\* C22 (Slot-preserving rebind): when a controller old is registered under the
\* path of controller new and has the learn binding (chan, cc),
\* keep_midi_learn(new) leaves learned_cc[chan][cc] and the dictionary entry of
\* the path referencing new and new's learn fields equal to (chan, cc), changes
\* no other cell, no other dictionary entry and no other controller, and raises
\* nothing; when nothing is registered under new's path it changes nothing and
\* raises nothing.
C22_SlotPreservingRebind ==
    [][ \A c \in Ctrls :
          (op'.name = "keep_midi_learn" /\ op'.zctrl = c)
          => IF ~DictHas(learned_zctrls, get_path(zctrl[c]))
             THEN /\ UNCHANGED <<zctrl, learned_cc, learned_zctrls>>
                  /\ ret' = "None"
             ELSE HasLearn(zctrl[Registered(c)])
                  => /\ learned_cc' = [learned_cc EXCEPT
                                          ![zctrl[Registered(c)].midi_learn_chan]
                                           [zctrl[Registered(c)].midi_learn_cc] = c]
                     /\ learned_zctrls' = DictPut(learned_zctrls, get_path(zctrl[c]), c)
                     /\ zctrl'[c].midi_learn_chan = zctrl[Registered(c)].midi_learn_chan
                     /\ zctrl'[c].midi_learn_cc = zctrl[Registered(c)].midi_learn_cc
                     /\ \A b \in Ctrls \ {c} : zctrl'[b] = zctrl[b]
                     /\ ret' \notin {"TypeError", "KeyError", "IndexError"} ]_vars

\* keep_midi_learn(B) has taken over the binding (0, 1) of A, registered under
\* the path the two share: the cell and the dictionary entry reference B, and
\* both controllers have the learn fields (0, 1).
C22_Witness ==
    /\ op.name = "keep_midi_learn" /\ op.zctrl = "B"
    /\ get_path(zctrl["A"]) = get_path(zctrl["B"])
    /\ learned_cc[0][1] = "B"
    /\ DictGet(learned_zctrls, get_path(zctrl["B"])) = "B"
    /\ zctrl["B"].midi_learn_chan = 0 /\ zctrl["B"].midi_learn_cc = 1
    /\ zctrl["A"].midi_learn_chan = 0 /\ zctrl["A"].midi_learn_cc = 1
    /\ RefCells(learned_cc, "A") = {}

\* C23 (Index rebuild): after refresh_midi_learn() the cell learned_cc[chan][cc]
\* references controller c exactly when c is a value of learned_zctrls whose
\* learn fields are (chan, cc), every other cell is empty, nothing is raised,
\* and learned_zctrls and the controllers are as they were.
C23_IndexRebuild ==
    [][ op'.name = "refresh_midi_learn"
        => /\ ret' = "None"
           /\ UNCHANGED <<zctrl, learned_zctrls>>
           /\ \A chan \in Chans, cc \in CCs :
                 /\ learned_cc'[chan][cc] \in Ctrls \cup {Nil}
                 /\ \A c \in Ctrls :
                       learned_cc'[chan][cc] = c
                       <=> ( /\ InDict(learned_zctrls, c)
                             /\ zctrl[c].midi_learn_chan = chan
                             /\ zctrl[c].midi_learn_cc = cc ) ]_vars

\* ------------------------------------------------------ saving and restoring

\* The keys of the state dictionaries restore_state is given back: the whole
\* saved state, the saved state without midi_learn_cc, and the value alone.
StateKeys ==
    { {"value", "midi_learn_chan", "midi_learn_cc"}, {"value", "midi_learn_chan"},
      {"value"} }

\* Every sink takes what it is sent
AllSinks == [engine |-> TRUE, osc |-> TRUE, midi |-> TRUE, feedback |-> TRUE]

\* The saved state with the keys of keys only
StateWith(state, keys) == [k \in DOMAIN state \cap keys |-> state[k]]

\* The controllers whose state is saved: a linear one on CC 1, learned by
\* setup_controller, and a selector without a route.
SavedConstructed ==
    { WithSetup(0, Num(1), Num(0), [k |-> "int", v |-> Whole(127)]),
      WithOptions(NewController, [labels |-> <<"a", "b", "c">>]) }

\* The values stored between a save and a restore
SavedValues == { Num(0), Num(Whole(64)), Str("bogus") }

\* Controller A as constructed, and next to it controller B, a linear one
\* without a route: its path is None, as is the path of the selector.
InitState ==
    /\ \E S \in SavedConstructed :
          /\ zctrl = [S.zctrl EXCEPT !["B"] = set_options(NewController, [value_max |-> Whole(10)]).z]
          /\ learned_cc = S.learned_cc
          /\ learned_zctrls = S.learned_zctrls
    /\ midi_single_active_channel = TRUE
    /\ op = NoOp
    /\ ret = "None"
    /\ ui = UiIdle
    /\ observed = NoLookup
    /\ sent = <<>>
    /\ thr = ThrIdle
    /\ ignore_not_on_gui = FALSE
    /\ _ctrl_screens = <<>>
    /\ midi_learn_mode = FALSE
    /\ midi_learn_zctrl = Nil

\* c.restore_state(state) with the sinks working, state being what c.get_state()
\* returned, whole or with learn keys taken out; get_state raising ends the step
RestoreSaved(CS) ==
    \E c \in CS, keys \in StateKeys :
        LET state == get_state(zctrl[c])
            r == restore_state(LearnState, c, StateWith(state, keys), AllSinks)
        IN  /\ IF "exc" \in DOMAIN state
               THEN UNCHANGED <<zctrl, learned_cc, learned_zctrls>>
                    /\ ret' = state.exc /\ sent' = <<>>
               ELSE /\ zctrl' = r.S.zctrl
                    /\ learned_cc' = r.S.learned_cc
                    /\ learned_zctrls' = r.S.learned_zctrls
                    /\ ret' = r.ret
                    /\ sent' = r.sent
            /\ op' = [name |-> "restore_state", zctrl |-> c, again |-> FALSE, bound |-> FALSE,
                      val |-> [k |-> "state", state |-> state, keys |-> keys], send |-> TRUE]
            /\ UNCHANGED <<midi_single_active_channel, midi_learn_mode, midi_learn_zctrl, ignore_not_on_gui, _ctrl_screens, ui, observed, thr>>

\* c.set_value(val) with the sinks working
StoreValue(CS) ==
    \E c \in CS, val \in SavedValues :
        /\ ValueCommit(c, set_value(zctrl[c], val, TRUE, AllSinks))
        /\ op' = CalledWith("set_value", c, val, TRUE)

StateCtrls == {"A"}

NextState ==
    \/ SetMidiLearn(Pair)
    \/ StoreValue(StateCtrls)
    \/ RestoreSaved(Pair)

SpecState == InitState /\ [][NextState]_vars

\* The entry of learned_zctrls under the path of controller c, None without one
EntryOf(d, z) == IF DictHas(d, get_path(z)) THEN DictGet(d, get_path(z)) ELSE Nil

\* What get_state() returns for controller z
Saved(z) == get_state(z)

\* C24 (State round-trip): get_state() holds the learn fields exactly when both
\* are set; for a controller with a numeric value, restore_state(get_state())
\* leaves its value, its learn fields, the grid and its learned_zctrls entry as
\* they were; given a state without both learn keys restore_state leaves the
\* learn fields, the grid and learned_zctrls as they were.
C24_StateRoundTrip ==
    [][ \A c \in Ctrls :
          ( /\ op'.name = "restore_state" /\ op'.zctrl = c
            /\ zctrl[c].value.k = "num" )
          => /\ ("midi_learn_chan" \in DOMAIN Saved(zctrl[c])) <=> HasLearn(zctrl[c])
             /\ ("midi_learn_cc" \in DOMAIN Saved(zctrl[c])) <=> HasLearn(zctrl[c])
             /\ zctrl'[c].value = zctrl[c].value
             /\ zctrl'[c].midi_learn_chan = zctrl[c].midi_learn_chan
             /\ zctrl'[c].midi_learn_cc = zctrl[c].midi_learn_cc
             /\ learned_cc' = learned_cc
             /\ EntryOf(learned_zctrls', zctrl'[c]) = EntryOf(learned_zctrls, zctrl[c])
             /\ ~({"midi_learn_chan", "midi_learn_cc"} \subseteq op'.val.keys)
                => UNCHANGED <<learned_cc, learned_zctrls>> ]_vars

HasLabel(z, label) == \E i \in 1..Len(z.labels) : z.labels[i] = label

\* C26 (Missing label is a no-op): set_value called with a label string that is
\* not among the controller's labels, or on a controller without ticks, leaves
\* the stored value as it was.
C26_MissingLabelNoOp ==
    [][ \A c \in Ctrls :
          ( /\ op'.name = "set_value" /\ op'.zctrl = c
            /\ op'.val.k = "str"
            /\ (~HasLabel(zctrl[c], op'.val.s) \/ zctrl[c].ticks = <<>>) )
          => zctrl'[c].value = zctrl[c].value ]_vars

\* --------------------------------------------------------- configuring again

\* The options a configured controller is given later: two ranges, the second
\* inside the first, a range with value_min above value_max, two labels with
\* their ticks, three labels without ticks, two labels without ticks, three
\* labels with two ticks, and two labels with three ticks.
LaterOptions ==
    { [value_min |-> 0, value_max |-> Whole(100)],
      [value_min |-> Whole(60), value_max |-> Whole(100)],
      [value_min |-> Whole(20), value_max |-> Whole(10)],
      [labels |-> <<"a", "b">>, ticks |-> <<0, Whole(1)>>],
      [labels |-> <<"x", "y", "z">>],
      [labels |-> <<"x", "y">>],
      [labels |-> <<"a", "b", "c">>, ticks |-> <<0, Whole(1)>>],
      [labels |-> <<"a", "b">>, ticks |-> <<0, Whole(1), Whole(2)>>] }

\* c.set_options(options) on a controller configured before or not
Reconfigure(CS) ==
    \E c \in CS, options \in LaterOptions :
        /\ zctrl' = [zctrl EXCEPT ![c] = set_options(zctrl[c], options).z]
        /\ ret' = set_options(zctrl[c], options).ret
        /\ op' = CalledWith("set_options", c, [k |-> "options", options |-> options], FALSE)
        /\ sent' = <<>>
        /\ UNCHANGED <<learned_cc, learned_zctrls, midi_single_active_channel, midi_learn_mode, midi_learn_zctrl, ignore_not_on_gui, _ctrl_screens, ui,
                       observed, thr>>

NextReconfig == Reconfigure(ConfigCtrls)

SpecReconfig == InitConfig /\ [][NextReconfig]_vars

\* Options with value_min above value_max, or with ticks and labels of
\* different lengths
Malformed(options) ==
    \/ /\ {"value_min", "value_max"} \subseteq DOMAIN options
       /\ options.value_min > options.value_max
    \/ /\ {"labels", "ticks"} \subseteq DOMAIN options
       /\ Len(options.labels) # Len(options.ticks)

\* The errors a call can end in
Errors == {"TypeError", "IndexError", "ValueError", "KeyError"}

\* C27 (Malformed configuration is rejected): set_options with value_min above
\* value_max, or with ticks and labels of different lengths, ends in an error
\* and leaves every field of the controller (bounds, ticks, labels, label maps,
\* value) as it was before the call.
C27_MalformedRejected ==
    [][ \A c \in Ctrls :
          ( /\ op'.name = "set_options" /\ op'.zctrl = c
            /\ Malformed(op'.val.options) )
          => /\ ret' \in Errors
             /\ zctrl'[c] = zctrl[c] ]_vars

\* C28 (No crash): in every state reached through set_value with numbers and
\* labels, nudge, midi_control_change and restore_state, nudge and
\* midi_control_change end without an exception, and get_state() and
\* get_ctrl_midi_val() would.
C28_NoCrash ==
    [][ \A c \in ValueCtrls :
          /\ (op'.name \in {"nudge", "midi_control_change"} /\ op'.zctrl = c)
             => ret' \notin Errors
          /\ "exc" \notin DOMAIN get_state(zctrl'[c])
          /\ get_ctrl_midi_val(zctrl'[c]) \in Int ]_vars

\* C29 (Bounds ordering): after every set_options or setup_controller call that
\* configured the controller to its end with value_min <= value_max, a later
\* call on an already configured controller included,
\* value_min <= value_mid <= value_max.
C29_BoundsOrdering ==
    \A c \in Ctrls :
        (ConfiguredBy(c) /\ zctrl[c].value_min <= zctrl[c].value_max)
        => /\ zctrl[c].value_min <= zctrl[c].value_mid
           /\ zctrl[c].value_mid <= zctrl[c].value_max

\* The ticks of controller z are as many as its labels and the two label maps
\* pair labels[i] with ticks[i]
TicksMatchLabels(z) ==
    /\ Len(z.ticks) = Len(z.labels)
    /\ \A i \in 1..Len(z.labels) :
          /\ z.labels[i] \in DOMAIN z.label2value
          /\ z.label2value[z.labels[i]] = z.ticks[i]
          /\ z.ticks[i] \in DOMAIN z.value2label
          /\ z.value2label[z.ticks[i]] = z.labels[i]

\* C30 (Ticks match labels): a set_options call whose options are not malformed,
\* one that replaces the labels without supplying ticks included, on a
\* controller whose ticks match its labels leaves a controller whose ticks match
\* its labels: as many ticks as labels, and the label maps pairing labels[i]
\* with ticks[i] for every i.
C30_TicksMatchLabels ==
    [][ \A c \in Ctrls :
          ( /\ op'.name = "set_options" /\ op'.zctrl = c
            /\ ~Malformed(op'.val.options)
            /\ TicksMatchLabels(zctrl[c]) )
          => TicksMatchLabels(zctrl'[c]) ]_vars

\* --------------------------------------------------------- the ticks

\* The smallest and the largest of the ticks
MinTick(ticks) == CHOOSE t \in {ticks[i] : i \in 1..Len(ticks)} :
                      \A i \in 1..Len(ticks) : t <= ticks[i]

MaxTick(ticks) == CHOOSE t \in {ticks[i] : i \in 1..Len(ticks)} :
                      \A i \in 1..Len(ticks) : t >= ticks[i]

\* C31 (Discrete bounds come from ticks): after a configuration of a controller
\* that has labels and ticks, value_min is the smallest tick and value_max the
\* largest, the ticks ascending or descending, whatever value_min and value_max
\* the options gave.
C31_BoundsFromTicks ==
    \A c \in Ctrls :
        (ConfiguredBy(c) /\ zctrl[c].labels # <<>> /\ zctrl[c].ticks # <<>>)
        => /\ zctrl[c].value_min = MinTick(zctrl[c].ticks)
           /\ zctrl[c].value_max = MaxTick(zctrl[c].ticks)

\* The value of controller z is one of its ticks
OnTick(z) == \E i \in 1..Len(z.ticks) : z.value = Num(z.ticks[i])

\* C32 (Discrete values sit on ticks): on a Discrete controller, after any
\* sequence of set_value, nudge, midi_control_change and restore_state, the
\* stored value is one of the ticks.
C32_ValuesOnTicks ==
    \A c \in ValueCtrls : Discrete(zctrl[c]) => OnTick(zctrl[c])

\* The values the nearest tick is looked up for: below, between, on and above
\* the ticks
Probes ==
    { Whole(-5), 0, Scale \div 2, Whole(1), Whole(30), Whole(32), Whole(64), Whole(100),
      Whole(127), Whole(200) }

\* C33 (Nearest-tick search): for the ticks of every configured controller,
\* given or generated from the labels, the integer-truncated ones included, and
\* every value v, get_value2index(v) is an index i for which |ticks[i] - v| is
\* the smallest over all indices.
C33_NearestTick ==
    \A c \in Ctrls :
        (ConfiguredBy(c) /\ zctrl[c].ticks # <<>>)
        => \A v \in Probes :
              /\ get_value2index(zctrl[c], Num(v)) \in 0..(Len(zctrl[c].ticks) - 1)
              /\ \A j \in 1..Len(zctrl[c].ticks) :
                    Abs(zctrl[c].ticks[get_value2index(zctrl[c], Num(v)) + 1] - v)
                      <= Abs(zctrl[c].ticks[j] - v)

\* ------------------------------------------------------------ the numbers

\* The whole numbers of the range of controller z
WholesIn(z) == {Whole(n) : n \in (z.value_min \div Scale)..(z.value_max \div Scale)}

\* C34 (Integer rounding): on an integer controller that is neither a toggle
\* nor discrete, set_value(raw) stores the whole number of
\* [value_min, value_max] nearest to raw; raw = 1.7 stores 2.
C34_IntegerRounding ==
    [][ \A c \in Ctrls :
          ( /\ op'.name = "set_value" /\ op'.zctrl = c /\ op'.val.k = "num"
            /\ Configured(zctrl[c]) /\ zctrl[c].is_integer
            /\ ~zctrl[c].is_toggle /\ zctrl[c].ticks = <<>> )
          => /\ zctrl'[c].value.k = "num"
             /\ zctrl'[c].value.v \in WholesIn(zctrl[c])
             /\ \A w \in WholesIn(zctrl[c]) :
                   Abs(zctrl'[c].value.v - op'.val.v) <= Abs(w - op'.val.v) ]_vars

\* C35 (Default value derivation): after the first configuration of a
\* controller whose options hold no value_default, value_default is the
\* just-clamped value and lies in [value_min, value_max].
C35_DefaultDerivation ==
    [][ \A c \in Ctrls :
          ( /\ ConfiguredBy(c)' /\ ~Configured(zctrl[c])
            /\ op'.name = "set_options" => "value_default" \notin DOMAIN op'.val.options )
          => /\ zctrl'[c].value_default = zctrl'[c].value
             /\ zctrl'[c].value_default.k = "num"
             /\ zctrl'[c].value_min <= zctrl'[c].value_default.v
             /\ zctrl'[c].value_default.v <= zctrl'[c].value_max ]_vars

\* ------------------------------------------------------ the learn records

\* C36 (Learn-state consistency): in every state reached through set_midi_learn,
\* midi_unlearn, keep_midi_learn, refresh_midi_learn, reset_midi_learn and
\* set_midi_chan the three records agree: learned_cc[chan][cc] references c
\* exactly when c's learn fields are (chan, cc), and exactly when c is the value
\* of learned_zctrls under c's path.
C36_LearnConsistency ==
    \A c \in Ctrls, chan \in Chans, cc \in CCs :
        /\ (learned_cc[chan][cc] = c)
           <=> (zctrl[c].midi_learn_chan = chan /\ zctrl[c].midi_learn_cc = cc)
        /\ (zctrl[c].midi_learn_chan = chan /\ zctrl[c].midi_learn_cc = cc)
           => EntryOf(learned_zctrls, zctrl[c]) = c
        /\ (EntryOf(learned_zctrls, zctrl[c]) = c) => HasLearn(zctrl[c])

\* C37 (Unbind frame): c.midi_unlearn() leaves every grid cell that does not
\* reference c, the learn fields of every other controller and every
\* learned_zctrls entry whose value is not c as they were, in every state
\* reached through set_midi_learn, keep_midi_learn and set_midi_chan,
\* controllers of one path included.
C37_UnbindFrame ==
    [][ \A c \in Ctrls :
          (op'.name = "midi_unlearn" /\ op'.zctrl = c)
          => /\ \A chan \in Chans, cc \in CCs :
                   learned_cc[chan][cc] # c => learned_cc'[chan][cc] = learned_cc[chan][cc]
             /\ \A b \in Ctrls \ {c} :
                   /\ zctrl'[b].midi_learn_chan = zctrl[b].midi_learn_chan
                   /\ zctrl'[b].midi_learn_cc = zctrl[b].midi_learn_cc
             /\ \A i \in 1..Len(learned_zctrls) :
                   learned_zctrls[i].zctrl # c
                   => \E j \in 1..Len(learned_zctrls') : learned_zctrls'[j] = learned_zctrls[i] ]_vars

\* C38 (Retiring the old controller keeps the new binding): after
\* keep_midi_learn(new) has taken over the slot (chan, cc) of a controller old
\* of the same path, old.midi_unlearn() leaves learned_cc[chan][cc] referencing
\* new, new in learned_zctrls and new's learn fields equal to (chan, cc).
C38_RetireKeepsBinding ==
    [][ \A old \in Ctrls, new \in Ctrls, chan \in Chans, cc \in CCs :
          ( /\ old # new
            /\ op.name = "keep_midi_learn" /\ op.zctrl = new /\ ret = "True"
            /\ get_path(zctrl[old]) = get_path(zctrl[new])
            /\ zctrl[old].midi_learn_chan = chan /\ zctrl[old].midi_learn_cc = cc
            /\ zctrl[new].midi_learn_chan = chan /\ zctrl[new].midi_learn_cc = cc
            /\ learned_cc[chan][cc] = new
            /\ op'.name = "midi_unlearn" /\ op'.zctrl = old )
          => /\ learned_cc'[chan][cc] = new
             /\ InDict(learned_zctrls', new)
             /\ zctrl'[new].midi_learn_chan = chan /\ zctrl'[new].midi_learn_cc = cc ]_vars

\* ------------------------------------------------------ the repeated nudge

\* The options of the selectors that are nudged: three to five labels with
\* generated ticks over the default range, over integer ranges shorter than the
\* number of labels, over a float range, and three labels with ascending and
\* with descending ticks.
NudgedOptions ==
    { [labels |-> <<"a", "b", "c">>],
      [labels |-> <<"a", "b", "c", "d">>],
      [labels |-> <<"a", "b", "c", "d", "e">>],
      [labels |-> <<"a", "b", "c">>, value_min |-> 0, value_max |-> Whole(1)],
      [labels |-> <<"a", "b", "c", "d", "e">>, value_min |-> 0, value_max |-> Whole(2)],
      [labels |-> <<"a", "b", "c">>, is_integer |-> FALSE, value_min |-> 0,
       value_max |-> Whole(1)],
      [labels |-> <<"a", "b", "c", "d", "e">>, value_min |-> 0, value_max |-> Whole(127)],
      [labels |-> <<"Off", "Low", "High">>, ticks |-> <<0, Whole(64), Whole(127)>>],
      [labels |-> <<"a", "b", "c">>, ticks |-> <<Whole(127), Whole(64), 0>>] }

\* The values the nudging starts from
NudgedFrom == {0, Scale \div 2, Whole(1), Whole(2), Whole(64), Whole(127)}

\* The steps of the encoder, one direction for the whole run
Directions == {1, -1}

\* Controller A configured as a selector and set to a value; op holds the
\* direction it is about to be nudged in.
InitNudge ==
    /\ \E options \in NudgedOptions, v \in NudgedFrom, dir \in Directions :
          /\ zctrl = [BaseState.zctrl EXCEPT
                         !["A"] = set_value(set_options(NewController, options).z,
                                            Num(v), TRUE, AllSinks).z]
          /\ op = CalledWith("repeat", "A", Num(dir), TRUE)
    /\ learned_cc = EmptyGrid
    /\ learned_zctrls = <<>>
    /\ midi_single_active_channel = FALSE
    /\ ret = "None"
    /\ ui = UiIdle
    /\ observed = NoLookup
    /\ sent = <<>>
    /\ thr = ThrIdle
    /\ ignore_not_on_gui = FALSE
    /\ _ctrl_screens = <<>>
    /\ midi_learn_mode = FALSE
    /\ midi_learn_zctrl = Nil

\* c.nudge(dir), in the direction of the run
RepeatNudge(CS) ==
    \E c \in CS :
        /\ ValueCommit(c, nudge(zctrl[c], op.val.v, TRUE, AllSinks))
        /\ op' = CalledWith("nudge", c, op.val, TRUE)

NextNudge == RepeatNudge(ValueCtrls)

\* The encoder keeps turning: a nudge that would change something is made.
SpecNudge == InitNudge /\ [][NextNudge]_vars /\ WF_vars(NextNudge)

\* The tick the run is heading for: the last one going up, the first one going
\* down
TargetTick(z) == IF op.val.v = 1 THEN z.ticks[Len(z.ticks)] ELSE z.ticks[1]

\* C39 (Discrete nudge makes progress): on every selector the configuration
\* produces, the integer-truncated generated ticks included, repeating nudge(+1)
\* from any value eventually stores the last tick and repeating nudge(-1)
\* eventually stores the first tick.
C39_NudgeProgress ==
    \A c \in ValueCtrls : <>(zctrl[c].value = Num(TargetTick(zctrl[c])))

\* ------------------------------------------------- the MIDI-learn mode

\* zynthian_gui's learn mode, as the operations below read and write it.
GuiState == [midi_learn_mode |-> midi_learn_mode, midi_learn_zctrl |-> midi_learn_zctrl]

\* zynthian_gui.enter_midi_learn()
enter_midi_learn(G) ==
    IF ~G.midi_learn_mode
    THEN [midi_learn_mode |-> TRUE, midi_learn_zctrl |-> Nil]
    ELSE G

\* zynthian_gui.exit_midi_learn()
exit_midi_learn(G) ==
    IF G.midi_learn_mode \/ G.midi_learn_zctrl # Nil
    THEN [midi_learn_mode |-> FALSE, midi_learn_zctrl |-> Nil]
    ELSE G

\* zynthian_gui.init_midi_learn_zctrl(zctrl)
init_midi_learn_zctrl(G, c) == [G EXCEPT !.midi_learn_zctrl = c]

\* zynthian_controller.init_midi_learn(): engine.init_midi_learn only logs
zctrl_init_midi_learn(G, z, c) == IF z.engine THEN init_midi_learn_zctrl(G, c) ELSE G

\* zynthian_engine.cb_midi_learn(zctrl, chan, cc)
engine_cb_midi_learn(S, c, chan, cc) == engine_set_midi_learn(S, c, chan, cc)

\* A cb_midi_learn that binds and leaves the learn pending.
zctrl_cb_midi_learn_stays_pending(S, G, c, chan, cc) ==
    IF S.zctrl[c].engine
    THEN LET r == engine_cb_midi_learn(S, c, chan, cc)
         IN  [S |-> r.S, G |-> G, ret |-> IF r.ret = "True" THEN "True" ELSE "False"]
    ELSE [S |-> S, G |-> G, ret |-> "True"]

\* zynthian_controller.cb_midi_learn(chan, cc)
zctrl_cb_midi_learn(S, G, c, chan, cc) ==
    IF S.zctrl[c].engine
    THEN LET r == engine_cb_midi_learn(S, c, chan, cc)
         IN  IF r.ret = "True"
             THEN [S |-> r.S, G |-> exit_midi_learn(G), ret |-> "True"]
             ELSE [S |-> r.S, G |-> G, ret |-> "False"]
    ELSE [S |-> S, G |-> G, ret |-> "True"]

\* screens['layer'].midi_control_change(chan, ccnum, ccval): the lookup in the
\* learn table and the call of the controller found there
layer_midi_control_change(S, chan, ccnum, ccval, io) ==
    engine_midi_control_change(S, chan, ccnum, ccval, io)

\* zynthian_gui.all_sounds_off_chan(chan) and all_notes_off_chan(chan)
all_off_chan(chan, ccnum) == << Msg("midi", TRUE, chan, ccnum, Num(0)) >>

\* The Control Change branch of zynthian_gui.zynmidi_read for one message on a
\* channel other than the master channel.  zynmixer.midi_control_change keeps
\* no controller.
zynmidi_read(S, G, chan, ccnum, ccval, io) ==
    IF ccnum < 120
    THEN IF G.midi_learn_zctrl # Nil
         THEN LET r == zctrl_cb_midi_learn(S, G, G.midi_learn_zctrl, chan, ccnum)
              IN  [S |-> r.S, G |-> r.G, ret |-> "None", sent |-> <<>>]
         ELSE LET r == layer_midi_control_change(S, chan, ccnum, ccval, io)
              IN  [S |-> r.S, G |-> G, ret |-> "None", sent |-> r.sent]
    ELSE IF ccnum = 120 \/ ccnum = 123
    THEN [S |-> S, G |-> G, ret |-> "None", sent |-> all_off_chan(chan, ccnum)]
    ELSE [S |-> S, G |-> G, ret |-> "None", sent |-> <<>>]

\* The CC numbers that arrive: those of the grid and the channel mode messages
\* All Sounds Off and All Notes Off
InboundCCs == CCs \cup {120, 123}

\* Controller A as setup_controller makes it, learned on CC 1 of channel 0, and
\* controller B, a linear one without a route; no learn is under way.
InitLearnMode ==
    /\ LET S == WithSetup(0, Num(1), Num(0), [k |-> "int", v |-> Whole(127)])
       IN  /\ zctrl = [S.zctrl EXCEPT !["B"] = set_options(NewController, [value_max |-> Whole(10)]).z]
           /\ learned_cc = S.learned_cc
           /\ learned_zctrls = S.learned_zctrls
    /\ midi_single_active_channel = FALSE
    /\ op = NoOp
    /\ ret = "None"
    /\ ui = UiIdle
    /\ observed = NoLookup
    /\ sent = <<>>
    /\ thr = ThrIdle
    /\ ignore_not_on_gui = FALSE
    /\ _ctrl_screens = <<>>
    /\ midi_learn_mode = FALSE
    /\ midi_learn_zctrl = Nil

\* A step of zynthian_gui that writes the learn mode alone
GuiCommit(G) ==
    /\ midi_learn_mode' = G.midi_learn_mode
    /\ midi_learn_zctrl' = G.midi_learn_zctrl
    /\ ret' = "None"
    /\ sent' = <<>>
    /\ UNCHANGED <<zctrl, learned_cc, learned_zctrls, midi_single_active_channel,
                   ignore_not_on_gui, _ctrl_screens, ui, observed, thr>>

\* zyngui.enter_midi_learn()
EnterMidiLearn ==
    /\ GuiCommit(enter_midi_learn(GuiState))
    /\ op' = Called("enter_midi_learn", Nil)

\* zyngui.exit_midi_learn()
ExitMidiLearn ==
    /\ GuiCommit(exit_midi_learn(GuiState))
    /\ op' = Called("exit_midi_learn", Nil)

\* c.init_midi_learn()
InitMidiLearn(CS) ==
    \E c \in CS :
        /\ GuiCommit(zctrl_init_midi_learn(GuiState, zctrl[c], c))
        /\ op' = Called("init_midi_learn", c)

\* zynmidi_read takes one Control Change message off the queue; op.zctrl is
\* the controller the learn was pending for
ZynmidiRead ==
    \E chan \in Chans, ccnum \in InboundCCs, ccval \in CCValues :
        LET r == zynmidi_read(LearnState, GuiState, chan, ccnum, ccval, AllSinks)
        IN  /\ zctrl' = r.S.zctrl
            /\ learned_cc' = r.S.learned_cc
            /\ learned_zctrls' = r.S.learned_zctrls
            /\ midi_learn_mode' = r.G.midi_learn_mode
            /\ midi_learn_zctrl' = r.G.midi_learn_zctrl
            /\ ret' = r.ret
            /\ sent' = r.sent
            /\ op' = [name |-> "zynmidi_read", zctrl |-> midi_learn_zctrl, again |-> FALSE,
                      bound |-> FALSE,
                      val |-> [k |-> "cc", chan |-> chan, ccnum |-> ccnum, v |-> ccval],
                      send |-> TRUE]
            /\ UNCHANGED <<midi_single_active_channel, ignore_not_on_gui, _ctrl_screens,
                           ui, observed, thr>>

NextLearnMode ==
    \/ EnterMidiLearn
    \/ ExitMidiLearn
    \/ InitMidiLearn(Pair)
    \/ ZynmidiRead

SpecLearnMode == InitLearnMode /\ [][NextLearnMode]_vars

\* The learn fields of every controller
LearnFields(zs) == [c \in Ctrls |-> <<zs[c].midi_learn_chan, zs[c].midi_learn_cc>>]

\* The value of every controller
Values(zs) == [c \in Ctrls |-> zs[c].value]

\* C40 (Learn-mode protocol): a Control Change with a number below 120 that
\* zynmidi_read takes while a learn is pending for controller c puts c in the
\* cell (chan, cc) of the grid and (chan, cc) in c's learn fields, changes no
\* controller's value and ends the learn: midi_learn_zctrl is None and
\* midi_learn_mode is false afterwards.  A Control Change taken while no learn
\* is pending changes neither the grid, nor the dictionary, nor any
\* controller's learn fields.
C40_LearnModeProtocol ==
    [][ op'.name = "zynmidi_read" =>
          IF midi_learn_zctrl # Nil
          THEN op'.val.ccnum < 120 =>
                  /\ learned_cc'[op'.val.chan][op'.val.ccnum] = midi_learn_zctrl
                  /\ zctrl'[midi_learn_zctrl].midi_learn_chan = op'.val.chan
                  /\ zctrl'[midi_learn_zctrl].midi_learn_cc = op'.val.ccnum
                  /\ Values(zctrl') = Values(zctrl)
                  /\ midi_learn_zctrl' = Nil
                  /\ midi_learn_mode' = FALSE
          ELSE /\ learned_cc' = learned_cc
               /\ learned_zctrls' = learned_zctrls
               /\ LearnFields(zctrl') = LearnFields(zctrl) ]_vars

\* A learn pending for B has ended on the cell A was bound to, A holding a
\* value an earlier Control Change gave it.
C40_Witness ==
    /\ op.name = "zynmidi_read"
    /\ op.zctrl = "B"
    /\ op.val.ccnum = 1
    /\ learned_cc[0][1] = "B"
    /\ zctrl["A"].value = Num(Whole(64))
    /\ midi_learn_zctrl = Nil
    /\ ~midi_learn_mode

====
